---- MODULE Spec2Model ----
(***************************************************************************)
(* Proof-of-work registration engine of                                    *)
(* bittensor_cli/src/bittensor/extrinsics/registration.py:                 *)
(* the Coordinator (_block_solver), the CPU and GPU Workers (_Solver,      *)
(* _CUDASolver), the lock-guarded shared block state and the Sealer.       *)
(*                                                                         *)
(* Widths are scaled so that TLC can enumerate them: a digest is HashLen   *)
(* bytes instead of 32, a difficulty half is HalfBits bits instead of 32,  *)
(* the nonce space is NonceSpace instead of 2^64.  Python integers are     *)
(* unbounded, so no product or shift of the code wraps; the only width     *)
(* that raises is nonce.to_bytes(8), kept as NonceOverflows.               *)
(***************************************************************************)
EXTENDS Integers, Sequences, FiniteSets, TLC

(* ------------------------------ bounds --------------------------------- *)
NumWorkers == 1
MaxHeight == 2
MaxQueue == 2
MaxSolutions == 2

(* ----------------------- scaled program constants ---------------------- *)
HashLen == 1
HalfBits == 2
NonceSpace == 5
FaucetDifficulty == 1000000
update_interval == 3
tpb == 1
n_samples == 3
AlphaNum == 4
AlphaDen == 5
FloatBits == 8
\* max_allowed_attempts: int = 3, max_successes: int = 3
max_allowed_attempts == 3
max_successes == 3

Workers == 0 .. (NumWorkers - 1)
Heights == 1 .. MaxHeight
Pow2(n) == 2 ^ n
limit == Pow2(8 * HashLen) - 1
nonce_limit == NonceSpace - 1
None == "None"
\* a local declared without a value (block_number: int) holds nothing yet
UnassignedInt == -1
UnassignedBytes == << >>

(* ------------------------------ Sealer --------------------------------- *)
Min(a, b) == IF a < b THEN a ELSE b

HexDigit(n) == IF n < 10 THEN 48 + n ELSE 87 + n
HexValue(c) == IF c >= 97 THEN c - 87 ELSE c - 48

\* binascii.hexlify: two lower-case hex characters (as ASCII codes) per byte
hexlify(bytes) ==
    [i \in 1 .. 2 * Len(bytes) |->
        IF i % 2 = 1 THEN HexDigit(bytes[(i + 1) \div 2] \div 16)
                     ELSE HexDigit(bytes[i \div 2] % 16)]

\* s[:n]
Take(s, n) == SubSeq(s, 1, Min(n, Len(s)))

\* int(hex_bytes[i : i + 2], 16) for i in range(0, len(hex_bytes), 2)
_hex_bytes_to_u8_list(hex_bytes) ==
    [k \in 1 .. (Len(hex_bytes) + 1) \div 2 |->
        IF 2 * k <= Len(hex_bytes)
        THEN 16 * HexValue(hex_bytes[2 * k - 1]) + HexValue(hex_bytes[2 * k])
        ELSE HexValue(hex_bytes[2 * k - 1])]

hex_to_bytes(hex_string) == _hex_bytes_to_u8_list(hex_string)

RECURSIVE Absorb(_, _, _)
Absorb(bytes, acc, mult) ==
    IF bytes = << >> THEN acc
    ELSE Absorb(Tail(bytes), (acc * mult + Head(bytes) + 1) % 65521, mult)

\* digests stand for hashlib.sha256 and keccak.new(digest_bits=256): fixed,
\* order-sensitive mixing functions of the input bytes, HashLen bytes wide
Digest(bytes, seed, mult) ==
    LET h == Absorb(bytes, seed, mult)
    IN  [i \in 1 .. HashLen |-> ((h \div Pow2(8 * (i - 1))) + 29 * (i - 1)) % 256]

sha256(bytes) == Digest(bytes, 7, 31)
keccak256(bytes) == Digest(bytes, 3, 37)

\* nonce.to_bytes(8, "little") raises OverflowError for nonce >= 2^64
NonceOverflows(nonce) == nonce >= NonceSpace
nonce_to_bytes(nonce) == << nonce % 256 >>

_create_seal_hash(block_and_hotkey_hash_bytes, nonce) ==
    LET nonce_bytes == hexlify(nonce_to_bytes(nonce))
        pre_seal == nonce_bytes \o Take(hexlify(block_and_hotkey_hash_bytes), 2 * HashLen)
        seal_sh256 == sha256(_hex_bytes_to_u8_list(pre_seal))
    IN  keccak256(seal_sh256)

RECURSIVE from_bytes_big(_)
from_bytes_big(bytes) ==
    IF bytes = << >> THEN 0
    ELSE 256 * from_bytes_big(SubSeq(bytes, 1, Len(bytes) - 1)) + bytes[Len(bytes)]

\* variant: the product is kept in the width of two digest bytes
_seal_meets_difficulty_wraps(seal, difficulty, lim) ==
    LET seal_number == from_bytes_big(seal)
        product == (seal_number * difficulty) % Pow2(16)
    IN  product < lim

\* seal_number = int.from_bytes(seal, "big"); product = seal_number * difficulty;
\* return product < limit
_seal_meets_difficulty(seal, difficulty, lim) ==
    LET seal_number == from_bytes_big(seal)
        product == seal_number * difficulty
    IN  product < lim

_hash_block_with_hotkey(block_bytes, hotkey_bytes) ==
    keccak256(block_bytes \o hotkey_bytes)

(* --------------------------- chain (environment) ----------------------- *)
\* the block hash (a hex string) and the Difficulty hyperparameter the chain
\* serves for the block at a height
DifficultyTable == << 3, 8, 6, 13 >>
ChainBlockHash(height) == hexlify(<< (37 * height + 11) % 256 >>)
ChainDifficulty(height) == DifficultyTable[((height - 1) % Len(DifficultyTable)) + 1]
hotkey_public_key == << 171 >>
coldkeypub_public_key == << 94 >>

(* ---------------------------- difficulty packing ----------------------- *)
RECURSIVE BitOr(_, _)
BitOr(a, b) ==
    IF a = 0 THEN b
    ELSE IF b = 0 THEN a
    ELSE 2 * BitOr(a \div 2, b \div 2) + (IF a % 2 = 1 \/ b % 2 = 1 THEN 1 ELSE 0)

\* packed_diff[0] << 32 | packed_diff[1]
_registration_diff_unpack(packed_diff) ==
    BitOr(packed_diff[1] * Pow2(HalfBits), packed_diff[2])

\* packed_diff[0] = diff >> 32
PackHigh(diff) == diff \div Pow2(HalfBits)
\* variant: the low half keeps one bit less
PackLow_short(diff) == diff % Pow2(HalfBits - 1)

\* packed_diff[1] = diff & 0xFFFFFFFF
PackLow(diff) == diff % Pow2(HalfBits)

\* _registration_diff_pack(diff, packed_diff): the two halves as they are stored
_registration_diff_pack(diff) == << PackHigh(diff), PackLow(diff) >>

(* ------------------------- floating-point numbers ---------------------- *)
\* a Python float is a mantissa of FloatBits bits and an exponent: m * 2^e, with
\* 2^(FloatBits-1) <= m < 2^FloatBits, or zero; every operation gives the exact
\* result rounded to the nearest float, ties to the even mantissa
Float(m, e) == [m |-> m, e |-> e]
FloatZero == Float(0, 0)

RECURSIVE bit_length(_)
bit_length(n) == IF n = 0 THEN 0 ELSE 1 + bit_length(n \div 2)

\* the float nearest to M * 2^E
RoundNearestEven(M, E) ==
    IF M = 0 THEN FloatZero
    ELSE LET s == bit_length(M) - FloatBits
         IN  IF s <= 0 THEN Float(M * Pow2(-s), E + s)
             ELSE LET q == M \div Pow2(s)
                      r == M % Pow2(s)
                      half == Pow2(s - 1)
                      up == IF r > half \/ (r = half /\ q % 2 = 1) THEN q + 1 ELSE q
                  IN  IF up = Pow2(FloatBits) THEN Float(up \div 2, E + s + 1)
                      ELSE Float(up, E + s)

\* float(n) of an int
float(n) == RoundNearestEven(n, 0)

\* a * b
float_mul(a, b) == RoundNearestEven(a.m * b.m, a.e + b.e)

\* a + b
float_add(a, b) ==
    LET e == Min(a.e, b.e)
    IN  RoundNearestEven(a.m * Pow2(a.e - e) + b.m * Pow2(b.e - e), e)

\* a / b: the quotient is cut after FloatBits + 2 bits and a sticky bit is kept
\* for what was cut, so that the rounding is that of the exact quotient
float_truediv(a, b) ==
    IF a.m = 0 THEN FloatZero
    ELSE LET k == FloatBits + 2
             q == (a.m * Pow2(k)) \div b.m
             sticky == IF (a.m * Pow2(k)) % b.m = 0 THEN 0 ELSE 1
         IN  RoundNearestEven(2 * q + sticky, a.e - b.e - k - 1)

\* a ** i for an int i >= 0
float_pow(a, i) == IF i = 0 THEN float(1) ELSE RoundNearestEven(a.m ^ i, a.e * i)

\* sum(xs): the items are added to 0 from left to right
RECURSIVE sum_from(_, _, _)
sum_from(xs, i, acc) ==
    IF i > Len(xs) THEN acc ELSE sum_from(xs, i + 1, float_add(acc, xs[i]))
sum(xs) == sum_from(xs, 1, float(0))

(* ------------------------------- state --------------------------------- *)
VARIABLES
    netuid, cuda,                              \* inputs of create_pow
    chain_height,                              \* the newest height the chain has served
    curr_block_num, curr_block, curr_diff,     \* shared memory
    check_block,                               \* the lock: "free", "coordinator" or Proc(w)
    stop_event, new_block_event,
    solution_queue, finished_queues,
    c_pc, c_i, old_block_number, c_block, solution, c_raised, curr_stats,
    num_time,                                  \* completion signals taken in this tick
    hash_rates, hash_rate,                     \* the sample window and curr_stats.hash_rate
    rounds_total,                              \* curr_stats.rounds_total
    signals,                                   \* completion signals the Workers have emitted
    w_pc, w_block_number, w_block_bytes, w_block_difficulty, nonce_start,
    put_log,                                   \* every Solution put in this round, in order
    r_pc, pow_result, attempts, successes,     \* register_extrinsic, run_faucet_extrinsic
    last_is_stale,                             \* the last call of is_stale: << self, result >>
    submitted,                                 \* every Solution given to submit_extrinsic
    err_console,                               \* the last message printed on err_console
    r_return,                                  \* what the caller has returned
    tally,                                     \* calls of create_pow and answers of the chain so far
    call_args, call_result                     \* one call of a function: arguments, result

inputs == << netuid, cuda >>
shared_block == << curr_block_num, curr_block, curr_diff >>
events == << stop_event, new_block_event >>
queues == << solution_queue, finished_queues >>
coord == << c_pc, c_i, old_block_number, c_block, solution, c_raised, curr_stats, num_time >>
ewma == << hash_rates, hash_rate >>
telemetry == << rounds_total, signals >>
caller == << r_pc, pow_result, attempts, successes, last_is_stale, submitted,
            err_console, r_return, tally >>
calls == << call_args, call_result >>
w_locals == << w_block_number, w_block_bytes, w_block_difficulty >>
vars == << inputs, chain_height, shared_block, check_block, events, queues, coord, ewma,
           telemetry,
           w_pc, w_locals, nonce_start, put_log, caller, calls >>

Alive(w) == w_pc[w] \notin {"init", "stopped", "terminated", "crashed"}
Started == \E w \in Workers : w_pc[w] # "init"

\* POWSolution(nonce, block_number, difficulty, seal)
POWSolution(nonce, block_number, difficulty, seal) ==
    [nonce |-> nonce, block_number |-> block_number,
     difficulty |-> difficulty, seal |-> seal]

\* solution = None
NoSolution == POWSolution(-1, -1, -1, << >>)
\* (block_number, difficulty, block_hash) not fetched yet
NoBlock == [block_number |-> -1, difficulty |-> -1, block_hash |-> << >>]
Proc(w) == ToString(w)

\* nonce_start before random.randint has been evaluated for the batch: the draw
\* before the loop, and the draw at the end of a batch
PendingFirstDraw == -2
PendingNextDraw == -1

\* the dummy values of _CUDASolver.run; the locals of _Solver.run start unassigned
InitialBlockNumber == IF cuda THEN 0 ELSE UnassignedInt
InitialBlockBytes == IF cuda THEN [i \in 1 .. HashLen |-> 48] ELSE UnassignedBytes
InitialBlockDifficulty == IF cuda THEN Pow2(2 * HalfBits) - 1 ELSE UnassignedInt

\* the state of one call of create_pow before the first statement of _block_solver
RoundInit ==
    /\ curr_block_num = 0
    /\ curr_block = [i \in 1 .. HashLen |-> 0]
    /\ curr_diff = << 0, 0 >>
    /\ check_block = "free"
    /\ stop_event = FALSE
    /\ new_block_event = [w \in Workers |-> FALSE]
    /\ solution_queue = << >>
    /\ finished_queues = [w \in Workers |-> << >>]
    /\ c_pc = "get_block"
    /\ c_i = 0
    /\ old_block_number = UnassignedInt
    /\ c_block = NoBlock
    /\ solution = NoSolution
    /\ c_raised = None
    /\ curr_stats = NoBlock
    /\ num_time = UnassignedInt
    /\ hash_rates = [i \in 1 .. n_samples |-> float(0)]
    /\ hash_rate = float(0)
    /\ rounds_total = 0
    /\ signals = 0
    /\ w_pc = [w \in Workers |-> "init"]
    /\ w_block_number = [w \in Workers |-> InitialBlockNumber]
    /\ w_block_bytes = [w \in Workers |-> InitialBlockBytes]
    /\ w_block_difficulty = [w \in Workers |-> InitialBlockDifficulty]
    /\ nonce_start = [w \in Workers |-> PendingFirstDraw]
    /\ put_log = << >>

\* the caller before its first call of create_pow: attempts = 1, successes = 1
CallerInit ==
    /\ r_pc = "create_pow"
    /\ pow_result = NoSolution
    /\ attempts = 1
    /\ successes = 1
    /\ last_is_stale = [self |-> NoSolution, result |-> FALSE]
    /\ submitted = {}
    /\ err_console = ""
    /\ r_return = None
    /\ tally = [create_pow |-> 0, succeeded |-> 0, failed |-> 0, failed_in_a_row |-> 0]

InitWith(netuids, cudas) ==
    /\ netuid \in netuids
    /\ cuda \in cudas
    /\ chain_height = 1
    /\ RoundInit
    /\ CallerInit
    /\ call_args = [fn |-> None]
    /\ call_result = None

\* registration on a subnet with CPU Workers
Init == InitWith({1}, {FALSE})

(* ------------------------------ batches -------------------------------- *)
SolveResult(raised, sol) == [raised |-> raised, solution |-> sol]

\* variant: a nonce is taken only when its seal meets twice the difficulty
RECURSIVE _solve_for_nonce_block_margin(_, _, _, _, _, _)
_solve_for_nonce_block_margin(nonce_from, nonce_end, block_and_hotkey_hash_bytes, difficulty, lim, block_number) ==
    IF nonce_from >= nonce_end THEN SolveResult(FALSE, NoSolution)
    ELSE IF NonceOverflows(nonce_from) THEN SolveResult(TRUE, NoSolution)
    ELSE LET seal == _create_seal_hash(block_and_hotkey_hash_bytes, nonce_from)
         IN  IF _seal_meets_difficulty(seal, 2 * difficulty, lim)
             THEN SolveResult(FALSE, POWSolution(nonce_from, block_number, difficulty, seal))
             ELSE _solve_for_nonce_block_margin(nonce_from + 1, nonce_end,
                                                block_and_hotkey_hash_bytes, difficulty, lim,
                                                block_number)

\* variant: the search includes nonce_end
RECURSIVE _solve_for_nonce_block_closed(_, _, _, _, _, _)
_solve_for_nonce_block_closed(nonce_from, nonce_end, block_and_hotkey_hash_bytes, difficulty, lim, block_number) ==
    IF nonce_from > nonce_end THEN SolveResult(FALSE, NoSolution)
    ELSE IF NonceOverflows(nonce_from) THEN SolveResult(TRUE, NoSolution)
    ELSE LET seal == _create_seal_hash(block_and_hotkey_hash_bytes, nonce_from)
         IN  IF _seal_meets_difficulty(seal, difficulty, lim)
             THEN SolveResult(FALSE, POWSolution(nonce_from, block_number, difficulty, seal))
             ELSE _solve_for_nonce_block_closed(nonce_from + 1, nonce_end,
                                                block_and_hotkey_hash_bytes, difficulty, lim,
                                                block_number)

\* for nonce in range(nonce_start, nonce_end): the first winning nonce, None
\* when the range has none, or the OverflowError of nonce.to_bytes(8, "little")
RECURSIVE _solve_for_nonce_block(_, _, _, _, _, _)
_solve_for_nonce_block(nonce_from, nonce_end, block_and_hotkey_hash_bytes, difficulty, lim, block_number) ==
    IF nonce_from >= nonce_end THEN SolveResult(FALSE, NoSolution)
    ELSE IF NonceOverflows(nonce_from) THEN SolveResult(TRUE, NoSolution)
    ELSE LET seal == _create_seal_hash(block_and_hotkey_hash_bytes, nonce_from)
         IN  IF _seal_meets_difficulty(seal, difficulty, lim)
             THEN SolveResult(FALSE, POWSolution(nonce_from, block_number, difficulty, seal))
             ELSE _solve_for_nonce_block(nonce_from + 1, nonce_end,
                                         block_and_hotkey_hash_bytes, difficulty, lim,
                                         block_number)

\* what cubit.solve_cuda may hand back for a batch: -1 or a nonce of the batch
CudaKernelResults(nonce_from) ==
    {-1} \cup {(nonce_from + k) % NonceSpace : k \in 0 .. (update_interval * tpb - 1)}

\* variant: the host hands the kernel's nonce back without re-checking its seal
solve_cuda_unchecked(kernel_solution, block_and_hotkey_hash_bytes, difficulty, lim) ==
    LET block_and_hotkey_hash_hex == Take(hexlify(block_and_hotkey_hash_bytes), 2 * HashLen)
        seal == _create_seal_hash(block_and_hotkey_hash_hex, kernel_solution)
    IN  IF kernel_solution # -1
        THEN [solution |-> kernel_solution, seal |-> seal]
        ELSE [solution |-> kernel_solution, seal |-> << >>]

\* solve_cuda after the kernel call: the host derives the seal and re-checks it
solve_cuda(kernel_solution, block_and_hotkey_hash_bytes, difficulty, lim) ==
    LET block_and_hotkey_hash_hex == Take(hexlify(block_and_hotkey_hash_bytes), 2 * HashLen)
        seal == _create_seal_hash(block_and_hotkey_hash_hex, kernel_solution)
    IN  IF kernel_solution # -1
        THEN IF _seal_meets_difficulty(seal, difficulty, lim)
             THEN [solution |-> kernel_solution, seal |-> seal]
             ELSE [solution |-> -1, seal |-> [i \in 1 .. HashLen |-> 0]]
        ELSE [solution |-> kernel_solution, seal |-> << >>]

_solve_for_nonce_block_cuda(kernel_solution, block_and_hotkey_hash_bytes, difficulty, lim, block_number) ==
    LET r == solve_cuda(kernel_solution, block_and_hotkey_hash_bytes, difficulty, lim)
    IN  IF r.solution # -1
        THEN POWSolution(r.solution, block_number, difficulty, r.seal)
        ELSE NoSolution

(* ------------------------------- Workers ------------------------------- *)
\* between the loop test and the end of _solve_for_nonce_block(_cuda)
BatchPcs == {"load_num", "load_block", "load_diff", "clear", "solve"}

\* the queues are unbounded in the program; the model lets a Worker start a
\* batch only while its results still fit the modelled queues
RoomFor(w) ==
    /\ Len(finished_queues[w]) < MaxQueue
    /\ Len(solution_queue) + Cardinality({v \in Workers : w_pc[v] \in BatchPcs}) < MaxSolutions

\* variant: the loop test does not look at stop_event
WorkerLoopTest_ignores_stop(w) ==
    /\ w_pc[w] = "while"
    /\ RoomFor(w)
    /\ w_pc' = [w_pc EXCEPT ![w] = IF new_block_event[w] THEN "load_num" ELSE "solve"]
    /\ UNCHANGED << inputs, ewma, telemetry, caller, calls, chain_height, shared_block, check_block, events, queues, coord,
                    w_locals, nonce_start, put_log >>

\* while not self.stop_event.is_set(): if self.new_block_event.is_set():
WorkerLoopTest(w) ==
    /\ w_pc[w] = "while"
    /\ IF stop_event
       THEN w_pc' = [w_pc EXCEPT ![w] = "stopped"]
       ELSE /\ RoomFor(w)
            /\ w_pc' = [w_pc EXCEPT ![w] = IF new_block_event[w] THEN "load_num" ELSE "solve"]
    /\ UNCHANGED << inputs, ewma, telemetry, caller, calls, chain_height, shared_block, check_block, events, queues, coord,
                    w_locals, nonce_start, put_log >>

\* variant: the load reads curr_block_num without taking check_block
WorkerLoadNum_unlocked(w) ==
    /\ w_pc[w] = "load_num"
    /\ w_block_number' = [w_block_number EXCEPT ![w] = curr_block_num]
    /\ w_pc' = [w_pc EXCEPT ![w] = "load_block"]
    /\ UNCHANGED << inputs, ewma, telemetry, caller, calls, chain_height, shared_block, check_block, events, queues, coord,
                    w_block_bytes, w_block_difficulty, nonce_start, put_log >>

\* with self.check_block: block_number = self.curr_block_num.value
WorkerLoadNum(w) ==
    /\ w_pc[w] = "load_num"
    /\ check_block = "free"
    /\ check_block' = Proc(w)
    /\ w_block_number' = [w_block_number EXCEPT ![w] = curr_block_num]
    /\ w_pc' = [w_pc EXCEPT ![w] = "load_block"]
    /\ UNCHANGED << inputs, ewma, telemetry, caller, calls, chain_height, shared_block, events, queues, coord,
                    w_block_bytes, w_block_difficulty, nonce_start, put_log >>

\* block_and_hotkey_hash_bytes = bytes(self.curr_block)
WorkerLoadBlock(w) ==
    /\ w_pc[w] = "load_block"
    /\ w_block_bytes' = [w_block_bytes EXCEPT ![w] = curr_block]
    /\ w_pc' = [w_pc EXCEPT ![w] = "load_diff"]
    /\ UNCHANGED << inputs, ewma, telemetry, caller, calls, chain_height, shared_block, check_block, events, queues, coord,
                    w_block_number, w_block_difficulty, nonce_start, put_log >>

\* the lock as the end of the with block leaves it
WorkerRelease(w) == IF check_block = Proc(w) THEN "free" ELSE check_block

\* variant: the Worker zeroes the packed difficulty after it has read it
WorkerLoadDiff_resets(w) ==
    /\ w_pc[w] = "load_diff"
    /\ w_block_difficulty' =
         [w_block_difficulty EXCEPT ![w] = _registration_diff_unpack(curr_diff)]
    /\ curr_diff' = << 0, 0 >>
    /\ check_block' = WorkerRelease(w)
    /\ w_pc' = [w_pc EXCEPT ![w] = "clear"]
    /\ UNCHANGED << inputs, ewma, telemetry, caller, calls, chain_height, curr_block_num, curr_block, events,
                    queues, coord, w_block_number, w_block_bytes, nonce_start, put_log >>

\* variant: the load ends without releasing check_block
WorkerLoadDiff_keeps_lock(w) ==
    /\ w_pc[w] = "load_diff"
    /\ w_block_difficulty' =
         [w_block_difficulty EXCEPT ![w] = _registration_diff_unpack(curr_diff)]
    /\ w_pc' = [w_pc EXCEPT ![w] = "clear"]
    /\ UNCHANGED << inputs, ewma, telemetry, caller, calls, chain_height, shared_block, check_block, events,
                    queues, coord, w_block_number, w_block_bytes, nonce_start, put_log >>

\* block_difficulty = _registration_diff_unpack(self.curr_diff); end of the with block
WorkerLoadDiff(w) ==
    /\ w_pc[w] = "load_diff"
    /\ w_block_difficulty' =
         [w_block_difficulty EXCEPT ![w] = _registration_diff_unpack(curr_diff)]
    /\ check_block' = WorkerRelease(w)
    /\ w_pc' = [w_pc EXCEPT ![w] = "clear"]
    /\ UNCHANGED << inputs, ewma, telemetry, caller, calls, chain_height, shared_block, events, queues, coord,
                    w_block_number, w_block_bytes, nonce_start, put_log >>

\* self.new_block_event.clear()
WorkerClear(w) ==
    /\ w_pc[w] = "clear"
    /\ new_block_event' = [new_block_event EXCEPT ![w] = FALSE]
    /\ w_pc' = [w_pc EXCEPT ![w] = "solve"]
    /\ UNCHANGED << inputs, ewma, telemetry, caller, calls, chain_height, shared_block, check_block, stop_event, queues, coord,
                    w_locals, nonce_start, put_log >>

\* random.randint(0, nonce_limit) before the loop;
\* random.randint(0, nonce_limit) % nonce_limit at the end of a batch
NonceStarts(w) ==
    IF nonce_start[w] = PendingFirstDraw THEN 0 .. nonce_limit
    ELSE IF nonce_start[w] = PendingNextDraw THEN {n % nonce_limit : n \in 0 .. nonce_limit}
    ELSE {nonce_start[w]}

\* the batch of the CPU Worker: _solve_for_nonce_block(nonce_start, nonce_end, ...);
\* a local that was never assigned raises UnboundLocalError
CpuBatch(w, nonce_from) ==
    IF w_block_number[w] = UnassignedInt
    THEN SolveResult(TRUE, NoSolution)
    ELSE _solve_for_nonce_block(nonce_from, nonce_from + update_interval,
                                w_block_bytes[w], w_block_difficulty[w], limit,
                                w_block_number[w])

\* the batch of the GPU Worker, for one answer of the kernel
GpuBatch(w, kernel_solution) ==
    SolveResult(FALSE,
                _solve_for_nonce_block_cuda(kernel_solution, w_block_bytes[w],
                                            w_block_difficulty[w], limit,
                                            w_block_number[w]))

\* variant: the Worker stamps its Solution with the block number that is
\* published when the batch ends
WorkerAfterBatch_restamps(w, r, nonce_from) ==
    /\ w_pc' = [w_pc EXCEPT ![w] = IF r.raised THEN "crashed" ELSE "put_finished"]
    /\ nonce_start' = [nonce_start EXCEPT ![w] = IF cuda THEN nonce_from ELSE @]
    /\ IF ~r.raised /\ r.solution # NoSolution
       THEN /\ solution_queue' =
                 Append(solution_queue, [r.solution EXCEPT !.block_number = curr_block_num])
            /\ put_log' = Append(put_log, [r.solution EXCEPT !.block_number = curr_block_num])
       ELSE UNCHANGED << solution_queue, put_log >>

\* if solution is not None: self.solution_queue.put(solution); an exception
\* raised in the batch ends the process
WorkerAfterBatch(w, r, nonce_from) ==
    /\ w_pc' = [w_pc EXCEPT ![w] = IF r.raised THEN "crashed" ELSE "put_finished"]
    /\ nonce_start' = [nonce_start EXCEPT ![w] = IF cuda THEN nonce_from ELSE @]
    /\ IF ~r.raised /\ r.solution # NoSolution
       THEN /\ solution_queue' = Append(solution_queue, r.solution)
            /\ put_log' = Append(put_log, r.solution)
       ELSE UNCHANGED << solution_queue, put_log >>

\* variant: the batch looks at stop_event and gives up when it is set
WorkerSolve_cancellable(w) ==
    /\ w_pc[w] = "solve"
    /\ IF stop_event
       THEN /\ w_pc' = [w_pc EXCEPT ![w] = "stopped"]
            /\ UNCHANGED << solution_queue, put_log, nonce_start >>
       ELSE \E nonce_from \in NonceStarts(w) :
                IF cuda
                THEN \/ \E kernel_solution \in CudaKernelResults(nonce_from) :
                           \E r \in {GpuBatch(w, kernel_solution)} :
                               WorkerAfterBatch(w, r, nonce_from)
                     \/ WorkerAfterBatch(w, SolveResult(TRUE, NoSolution), nonce_from)
                ELSE \E r \in {CpuBatch(w, nonce_from)} : WorkerAfterBatch(w, r, nonce_from)
    /\ UNCHANGED << inputs, ewma, telemetry, caller, calls, chain_height, shared_block, check_block, events, finished_queues,
                    coord, w_locals >>

\* solution = _solve_for_nonce_block(...) / _solve_for_nonce_block_cuda(...)
\* (cubit missing or a CUDA error raises in the GPU batch)
WorkerSolve(w) ==
    /\ w_pc[w] = "solve"
    /\ \E nonce_from \in NonceStarts(w) :
         IF cuda
         THEN \/ \E kernel_solution \in CudaKernelResults(nonce_from) :
                    \E r \in {GpuBatch(w, kernel_solution)} :
                        WorkerAfterBatch(w, r, nonce_from)
              \/ WorkerAfterBatch(w, SolveResult(TRUE, NoSolution), nonce_from)
         ELSE \E r \in {CpuBatch(w, nonce_from)} : WorkerAfterBatch(w, r, nonce_from)
    /\ UNCHANGED << inputs, ewma, telemetry, caller, calls, chain_height, shared_block, check_block, events, finished_queues,
                    coord, w_locals >>

\* variant: a completion channel that never has room
Full_no_room(queue) == TRUE

\* Queue() has no maxsize: no put ever finds it full
Full(queue) == FALSE

\* nonce_start of the next batch: the GPU Worker advances its cursor, the CPU
\* Worker draws again
NextNonceStart(w) ==
    IF cuda THEN (nonce_start[w] + update_interval * tpb) % nonce_limit
    ELSE PendingNextDraw

\* the counters of the model stop at SignalCap
SignalCap == MaxQueue

\* variant: the Worker signals the end of a batch twice
WorkerPutFinished_twice(w) ==
    /\ w_pc[w] = "put_finished"
    /\ finished_queues' = [finished_queues EXCEPT ![w] = Append(Append(@, w), w)]
    /\ signals' = Min(signals + 2, SignalCap)
    /\ UNCHANGED rounds_total
    /\ nonce_start' = [nonce_start EXCEPT ![w] = NextNonceStart(w)]
    /\ w_pc' = [w_pc EXCEPT ![w] = "while"]
    /\ UNCHANGED << inputs, ewma, caller, calls, chain_height, shared_block, check_block, events, solution_queue,
                    coord, w_locals, put_log >>

\* CPU: self.finished_queue.put_nowait(self.proc_num), except Full: pass;
\* GPU: self.finished_queue.put(self.proc_num), which waits while the queue is full;
\* then the nonce_start of the next batch
WorkerPutFinished(w) ==
    /\ w_pc[w] = "put_finished"
    /\ cuda => ~Full(finished_queues[w])
    /\ finished_queues' =
         [finished_queues EXCEPT ![w] = IF Full(@) THEN @ ELSE Append(@, w)]
    /\ signals' = IF Full(finished_queues[w]) THEN signals ELSE Min(signals + 1, SignalCap)
    /\ UNCHANGED rounds_total
    /\ nonce_start' = [nonce_start EXCEPT ![w] = NextNonceStart(w)]
    /\ w_pc' = [w_pc EXCEPT ![w] = "while"]
    /\ UNCHANGED << inputs, ewma, caller, calls, chain_height, shared_block, check_block, events, solution_queue,
                    coord, w_locals, put_log >>

WorkerStep(w) ==
    \/ WorkerLoopTest(w)
    \/ WorkerLoadNum(w)
    \/ WorkerLoadBlock(w)
    \/ WorkerLoadDiff(w)
    \/ WorkerClear(w)
    \/ WorkerSolve(w)
    \/ WorkerPutFinished(w)

(* ----------------------------- Coordinator ----------------------------- *)
\* hotkey_bytes of _block_solver
hotkey_bytes == IF netuid = -1 THEN coldkeypub_public_key ELSE hotkey_public_key

\* substrate.get_block_number(None): the chain head, which only grows
get_block_number == chain_height .. MaxHeight

\* is_hotkey_registered: the hotkey can get registered on the subnet by other means
is_hotkey_registered == BOOLEAN

\* what the Difficulty query can answer; with netuid = -1 the chain is not asked
DifficultyAnswers ==
    IF netuid = -1 THEN {"value"} ELSE {"value", "none", "SubstrateRequestException"}

\* variant: the Difficulty hyperparameter is asked for whatever the netuid
_get_block_with_retry_always_asks(height, answer) ==
    IF answer = "none" THEN [raised |-> "ValueError", block |-> NoBlock]
    ELSE IF answer = "SubstrateRequestException" THEN [raised |-> "Exception", block |-> NoBlock]
    ELSE [raised |-> None,
          block |-> [block_number |-> height, difficulty |-> ChainDifficulty(height),
                     block_hash |-> ChainBlockHash(height)]]

\* _get_block_with_retry, for one chain head and one answer of the Difficulty query
_get_block_with_retry(height, answer) ==
    IF netuid = -1
    THEN [raised |-> None,
          block |-> [block_number |-> height, difficulty |-> FaucetDifficulty,
                     block_hash |-> ChainBlockHash(height)]]
    ELSE IF answer = "none" THEN [raised |-> "ValueError", block |-> NoBlock]
    ELSE IF answer = "SubstrateRequestException" THEN [raised |-> "Exception", block |-> NoBlock]
    ELSE [raised |-> None,
          block |-> [block_number |-> height, difficulty |-> ChainDifficulty(height),
                     block_hash |-> ChainBlockHash(height)]]

\* variant: an error of the block fetch is noted and the fetch is made again
CoordGetBlock_retries ==
    /\ c_pc = "get_block"
    /\ \E block_number \in get_block_number, answer \in DifficultyAnswers :
         LET r == _get_block_with_retry(block_number, answer)
         IN  /\ chain_height' = block_number
             /\ IF r.raised # None
                 THEN /\ c_raised' = r.raised
                      /\ c_pc' = "get_block"
                      /\ UNCHANGED << c_block, old_block_number >>
                 ELSE /\ c_block' = r.block
                      /\ old_block_number' =
                           IF Started THEN old_block_number ELSE r.block.block_number
                      /\ c_pc' = "pub_num"
                      /\ UNCHANGED c_raised
    /\ UNCHANGED << inputs, ewma, telemetry, caller, calls, shared_block, check_block, events, queues,
                    c_i, solution, curr_stats,
                    w_pc, w_locals, nonce_start, put_log, num_time >>

\* block_number, difficulty, block_hash = await _get_block_with_retry(...): the
\* first block of _block_solver and the re-fetch of
\* _check_for_newest_block_and_update; an error it raises leaves _block_solver
CoordGetBlock ==
    /\ c_pc = "get_block"
    /\ \E block_number \in get_block_number, answer \in DifficultyAnswers :
         LET r == _get_block_with_retry(block_number, answer)
         IN  /\ chain_height' = block_number
             /\ IF r.raised # None
                 THEN /\ c_raised' = r.raised
                      /\ c_pc' = "raised"
                      /\ UNCHANGED << c_block, old_block_number >>
                 ELSE /\ c_block' = r.block
                      /\ old_block_number' =
                           IF Started THEN old_block_number ELSE r.block.block_number
                      /\ c_pc' = "pub_num"
                      /\ UNCHANGED c_raised
    /\ UNCHANGED << inputs, ewma, telemetry, caller, calls, shared_block, check_block, events, queues,
                    c_i, solution, curr_stats,
                    w_pc, w_locals, nonce_start, put_log, num_time >>

\* variant: the publish writes curr_block_num without taking the lock
CoordPubNum_unlocked ==
    /\ c_pc = "pub_num"
    /\ curr_block_num' = c_block.block_number
    /\ c_pc' = "pub_block"
    /\ UNCHANGED << inputs, ewma, telemetry, caller, calls, chain_height, curr_block, curr_diff, check_block, events, queues,
                    c_i, old_block_number, c_block, solution, c_raised, curr_stats,
                    w_pc, w_locals, nonce_start, put_log, num_time >>

\* _update_curr_block: with lock: curr_block_num.value = block_number
CoordPubNum ==
    /\ c_pc = "pub_num"
    /\ check_block = "free"
    /\ check_block' = "coordinator"
    /\ curr_block_num' = c_block.block_number
    /\ c_pc' = "pub_block"
    /\ UNCHANGED << inputs, ewma, telemetry, caller, calls, chain_height, curr_block, curr_diff, events, queues,
                    c_i, old_block_number, c_block, solution, c_raised, curr_stats,
                    w_pc, w_locals, nonce_start, put_log, num_time >>

\* for i in range(32): curr_block[i] = block_and_hotkey_hash_bytes[i]
CoordPubBlock ==
    /\ c_pc = "pub_block"
    /\ curr_block' = _hash_block_with_hotkey(hex_to_bytes(c_block.block_hash), hotkey_bytes)
    /\ c_pc' = "pub_diff_high"
    /\ UNCHANGED << inputs, ewma, telemetry, caller, calls, chain_height, curr_block_num, curr_diff, check_block, events, queues,
                    c_i, old_block_number, c_block, solution, c_raised, curr_stats,
                    w_pc, w_locals, nonce_start, put_log, num_time >>

\* _registration_diff_pack: packed_diff[0] = diff >> 32
CoordPubDiffHigh ==
    /\ c_pc = "pub_diff_high"
    /\ curr_diff' = [curr_diff EXCEPT ![1] = PackHigh(c_block.difficulty)]
    /\ c_pc' = "pub_diff_low"
    /\ UNCHANGED << inputs, ewma, telemetry, caller, calls, chain_height, curr_block_num, curr_block, check_block, events, queues,
                    c_i, old_block_number, c_block, solution, c_raised, curr_stats,
                    w_pc, w_locals, nonce_start, put_log, num_time >>

\* the lock as the end of the with block of _update_curr_block leaves it
CoordRelease == IF check_block = "coordinator" THEN "free" ELSE check_block

\* packed_diff[1] = diff & 0xFFFFFFFF; end of the with block
CoordPubDiffLow ==
    /\ c_pc = "pub_diff_low"
    /\ curr_diff' = [curr_diff EXCEPT ![2] = PackLow(c_block.difficulty)]
    /\ check_block' = CoordRelease
    /\ c_pc' = "set_events"
    /\ c_i' = 0
    /\ UNCHANGED << inputs, ewma, telemetry, caller, calls, chain_height, curr_block_num, curr_block, events, queues,
                    old_block_number, c_block, solution, c_raised, curr_stats,
                    w_pc, w_locals, nonce_start, put_log, num_time >>

\* variant: the Coordinator goes through the Workers without setting their flags
CoordSetEvent_forgets ==
    /\ c_pc = "set_events"
    /\ IF c_i + 1 < NumWorkers
       THEN /\ c_i' = c_i + 1
            /\ UNCHANGED << c_pc, curr_stats >>
       ELSE /\ c_i' = 0
            /\ c_pc' = IF Started THEN "drain" ELSE "start"
            /\ curr_stats' = IF Started THEN c_block ELSE curr_stats
    /\ UNCHANGED << inputs, ewma, telemetry, caller, calls, chain_height, shared_block, check_block, events, queues,
                    old_block_number, c_block, solution, c_raised,
                    w_pc, w_locals, nonce_start, put_log, num_time >>

\* for worker in solvers: worker.new_block_event.set(); after the last one the
\* first round goes on to start the Workers, a tick updates curr_stats
CoordSetEvent ==
    /\ c_pc = "set_events"
    /\ new_block_event' = [new_block_event EXCEPT ![c_i] = TRUE]
    /\ IF c_i + 1 < NumWorkers
       THEN /\ c_i' = c_i + 1
            /\ UNCHANGED << c_pc, curr_stats >>
       ELSE /\ c_i' = 0
            /\ c_pc' = IF Started THEN "drain" ELSE "start"
            /\ curr_stats' = IF Started THEN c_block ELSE curr_stats
    /\ UNCHANGED << inputs, ewma, telemetry, caller, calls, chain_height, shared_block, check_block, stop_event, queues,
                    old_block_number, c_block, solution, c_raised,
                    w_pc, w_locals, nonce_start, put_log, num_time >>

\* for worker in solvers: worker.start(); curr_stats = RegistrationStatistics(...)
CoordStart ==
    /\ c_pc = "start"
    /\ w_pc' = [w \in Workers |-> "while"]
    /\ curr_stats' = c_block
    /\ c_pc' = "while"
    /\ UNCHANGED << inputs, ewma, telemetry, caller, calls, chain_height, shared_block, check_block, events, queues,
                    c_i, old_block_number, c_block, solution, c_raised,
                    w_locals, nonce_start, put_log, num_time >>

\* variant: a registered hotkey makes _block_solver return at once
CoordLoopTest_returns_at_once ==
    /\ c_pc = "while"
    /\ \E registered \in is_hotkey_registered :
         c_pc' = IF netuid = -1 \/ ~registered THEN "get_solution" ELSE "returned"
    /\ UNCHANGED << inputs, ewma, telemetry, caller, calls, chain_height, shared_block, check_block, events, queues,
                    c_i, old_block_number, c_block, solution, c_raised, curr_stats,
                    w_pc, w_locals, nonce_start, put_log, num_time >>

\* while netuid == -1 or not await is_hotkey_registered(...):
CoordLoopTest ==
    /\ c_pc = "while"
    /\ \E registered \in is_hotkey_registered :
         c_pc' = IF netuid = -1 \/ ~registered THEN "get_solution" ELSE "set_stop"
    /\ UNCHANGED << inputs, ewma, telemetry, caller, calls, chain_height, shared_block, check_block, events, queues,
                    c_i, old_block_number, c_block, solution, c_raised, curr_stats,
                    w_pc, w_locals, nonce_start, put_log, num_time >>

\* variant: the Coordinator takes the newest Solution of the channel
CoordGetSolution_newest ==
    /\ c_pc = "get_solution"
    /\ IF solution_queue # << >>
       THEN /\ solution' = solution_queue[Len(solution_queue)]
            /\ solution_queue' = SubSeq(solution_queue, 1, Len(solution_queue) - 1)
            /\ c_pc' = "set_stop"
       ELSE /\ c_pc' = "get_block_number"
            /\ UNCHANGED << solution, solution_queue >>
    /\ UNCHANGED << inputs, ewma, telemetry, caller, calls, chain_height, shared_block, check_block, events, finished_queues,
                    c_i, old_block_number, c_block, c_raised, curr_stats,
                    w_pc, w_locals, nonce_start, put_log, num_time >>

\* solution = solution_queue.get(block=True, timeout=timeout);
\* if solution is not None: break; except Empty: pass
CoordGetSolution ==
    /\ c_pc = "get_solution"
    /\ IF solution_queue # << >>
       THEN /\ solution' = Head(solution_queue)
            /\ solution_queue' = Tail(solution_queue)
            /\ c_pc' = "set_stop"
       ELSE /\ c_pc' = "get_block_number"
            /\ UNCHANGED << solution, solution_queue >>
    /\ UNCHANGED << inputs, ewma, telemetry, caller, calls, chain_height, shared_block, check_block, events, finished_queues,
                    c_i, old_block_number, c_block, c_raised, curr_stats,
                    w_pc, w_locals, nonce_start, put_log, num_time >>

\* variant: every tick fetches and publishes the block, whatever the height
CoordGetBlockNumber_always_updates ==
    /\ c_pc = "get_block_number"
    /\ \E block_number \in get_block_number :
         /\ chain_height' = block_number
         /\ old_block_number' = block_number
         /\ c_pc' = "get_block"
    /\ c_i' = 0
    /\ UNCHANGED << inputs, ewma, telemetry, caller, calls, shared_block, check_block, events, queues,
                    c_block, solution, c_raised, curr_stats,
                    w_pc, w_locals, nonce_start, put_log, num_time >>

\* _check_for_newest_block_and_update: block_number = await get_block_number(None);
\* if block_number != old_block_number: old_block_number = block_number
CoordGetBlockNumber ==
    /\ c_pc = "get_block_number"
    /\ \E block_number \in get_block_number :
         /\ chain_height' = block_number
         /\ IF block_number # old_block_number
            THEN /\ old_block_number' = block_number
                 /\ c_pc' = "get_block"
            ELSE /\ c_pc' = "drain"
                 /\ UNCHANGED old_block_number
    /\ c_i' = 0
    /\ UNCHANGED << inputs, ewma, telemetry, caller, calls, shared_block, check_block, events, queues,
                    c_block, solution, c_raised, curr_stats,
                    w_pc, w_locals, nonce_start, put_log, num_time >>

\* time_since_last = time_now - time_last, in units of the clock
TickDurations == {1, 3, 5, 7}

\* if num_time > 0 and time_since_last > 0.0: ... curr_stats.rounds_total += num_time
RoundsTotalAfter(n, time_since_last) ==
    IF n > 0 /\ time_since_last > 0 THEN Min(rounds_total + n, SignalCap) ELSE rounds_total

\* variant: the drain counts a channel whether or not it gave a signal
Drained_counts_empty(queue) == 1

\* finished_queue.get(timeout=0.1); num_time += 1; except Empty: continue
Drained(queue) == IF queue # << >> THEN 1 ELSE 0

\* num_time = 0; for finished_queue in finished_queues: try:
\* finished_queue.get(timeout=0.1); num_time += 1; except Empty: continue;
\* after the last channel: curr_stats.rounds_total += num_time
\* (the hash-rate sample taken from num_time is UpdateHashRate)
CoordDrain ==
    /\ c_pc = "drain"
    /\ finished_queues' =
         [finished_queues EXCEPT ![c_i] = IF @ # << >> THEN Tail(@) ELSE @]
    /\ num_time' = (IF c_i = 0 THEN 0 ELSE num_time) + Drained(finished_queues[c_i])
    /\ IF c_i + 1 < NumWorkers
       THEN c_i' = c_i + 1 /\ UNCHANGED << c_pc, rounds_total >>
       ELSE /\ c_i' = 0
            /\ c_pc' = "while"
            /\ \E time_since_last \in TickDurations :
                 rounds_total' = RoundsTotalAfter(num_time', time_since_last)
    /\ UNCHANGED << inputs, ewma, signals, caller, calls, chain_height, shared_block, check_block, events, solution_queue,
                    old_block_number, c_block, solution, c_raised, curr_stats,
                    w_pc, w_locals, nonce_start, put_log >>

\* stop_event.set()
CoordSetStop ==
    /\ c_pc = "set_stop"
    /\ stop_event' = TRUE
    /\ c_pc' = "join"
    /\ c_i' = 0
    /\ UNCHANGED << inputs, ewma, telemetry, caller, calls, chain_height, shared_block, check_block, new_block_event, queues,
                    old_block_number, c_block, solution, c_raised, curr_stats,
                    w_pc, w_locals, nonce_start, put_log, num_time >>

\* worker.join(3.0) returns when the process has exited or when the 3 seconds
\* are over; Process.join never raises subprocess.TimeoutExpired
CoordJoin ==
    /\ c_pc = "join"
    /\ c_pc' = "close"
    /\ UNCHANGED << inputs, ewma, telemetry, caller, calls, chain_height, shared_block, check_block, events, queues,
                    c_i, old_block_number, c_block, solution, c_raised, curr_stats,
                    w_pc, w_locals, nonce_start, put_log, num_time >>

\* variant: close() on a running process leaves it running
CloseWorker_leaves_running(w) == w_pc[w]

\* worker.close() raises ValueError while the process is running:
\* except ValueError: worker.terminate()
CloseWorker(w) == IF Alive(w) THEN "terminated" ELSE w_pc[w]

CoordClose ==
    /\ c_pc = "close"
    /\ w_pc' = [w_pc EXCEPT ![c_i] = CloseWorker(c_i)]
    /\ IF c_i + 1 < NumWorkers
       THEN c_i' = c_i + 1 /\ c_pc' = "join"
       ELSE c_i' = 0 /\ c_pc' = "returned"
    /\ UNCHANGED << inputs, ewma, telemetry, caller, calls, chain_height, shared_block, check_block, events, queues,
                    old_block_number, c_block, solution, c_raised, curr_stats,
                    w_locals, nonce_start, put_log, num_time >>

\* the caller (register_extrinsic, run_faucet_extrinsic) calls create_pow again:
\* new shared memory, queues, events and Workers
NewRound ==
    /\ c_pc = "returned"
    /\ curr_block_num' = 0
    /\ curr_block' = [i \in 1 .. HashLen |-> 0]
    /\ curr_diff' = << 0, 0 >>
    /\ check_block' = "free"
    /\ stop_event' = FALSE
    /\ new_block_event' = [w \in Workers |-> FALSE]
    /\ solution_queue' = << >>
    /\ finished_queues' = [w \in Workers |-> << >>]
    /\ c_pc' = "get_block"
    /\ c_i' = 0
    /\ old_block_number' = UnassignedInt
    /\ c_block' = NoBlock
    /\ solution' = NoSolution
    /\ c_raised' = None
    /\ curr_stats' = NoBlock
    /\ num_time' = UnassignedInt
    /\ hash_rates' = [i \in 1 .. n_samples |-> float(0)]
    /\ hash_rate' = float(0)
    /\ rounds_total' = 0
    /\ signals' = 0
    /\ w_pc' = [w \in Workers |-> "init"]
    /\ w_block_number' = [w \in Workers |-> InitialBlockNumber]
    /\ w_block_bytes' = [w \in Workers |-> InitialBlockBytes]
    /\ w_block_difficulty' = [w \in Workers |-> InitialBlockDifficulty]
    /\ nonce_start' = [w \in Workers |-> PendingFirstDraw]
    /\ put_log' = << >>
    /\ UNCHANGED << inputs, chain_height, caller, calls >>

CoordStep ==
    \/ CoordGetBlock
    \/ CoordPubNum
    \/ CoordPubBlock
    \/ CoordPubDiffHigh
    \/ CoordPubDiffLow
    \/ CoordSetEvent
    \/ CoordStart
    \/ CoordLoopTest
    \/ CoordGetSolution
    \/ CoordGetBlockNumber
    \/ CoordDrain
    \/ CoordSetStop
    \/ CoordJoin
    \/ CoordClose

Next ==
    \/ CoordStep
    \/ \E w \in Workers : WorkerStep(w)
    \/ NewRound

Spec == Init /\ [][Next]_vars

\* registration on a subnet with CPU Workers or with GPU Workers
InitPow == InitWith({1}, BOOLEAN)
SpecPow == InitPow /\ [][Next]_vars

\* registration on a subnet, or the faucet (netuid = -1), with CPU Workers
InitFaucet == InitWith({1, -1}, {FALSE})
SpecFaucet == InitFaucet /\ [][Next]_vars

\* every process that can take a step is scheduled: the operating system runs each
\* Worker process, the event loop runs the Coordinator (its waits are all bounded:
\* get(timeout), join(3.0))
Fairness ==
    /\ WF_vars(CoordStep)
    /\ \A w \in Workers : WF_vars(WorkerStep(w))
FairSpec == Spec /\ Fairness

\* the same scheduling for a registration with CPU Workers or with GPU Workers
FairSpecPow == SpecPow /\ Fairness

(* ------------------------- hash-rate statistics ------------------------- *)
\* alpha_ = 0.80: the float nearest to 4/5
alpha_ == float_truediv(float(AlphaNum), float(AlphaDen))

\* weights = [alpha_**i for i in range(n_samples)]
weights == [i \in 1 .. n_samples |-> float_pow(alpha_, i - 1)]

\* hash_rate_ = (num_time * tpb * update_interval) / time_since_last with GPU Workers,
\* (num_time * update_interval) / time_since_last with CPU Workers
hash_rate_(n, time_since_last) ==
    float_truediv(float(n * (IF cuda THEN tpb ELSE 1) * update_interval),
                  float(time_since_last))

\* hash_rates.append(hash_rate_); hash_rates.pop(0)
AppendPop(rates, sample) == Tail(Append(rates, sample))

\* variant: the weighted sum is divided by the number of samples
SmoothedHashRate_plain_mean(rates) ==
    float_truediv(sum([i \in 1 .. n_samples |-> float_mul(rates[i], weights[i])]),
                  float(n_samples))

\* sum([hash_rates[i] * weights[i] for i in range(n_samples)]) / (sum(weights))
SmoothedHashRate(rates) ==
    float_truediv(sum([i \in 1 .. n_samples |-> float_mul(rates[i], weights[i])]),
                  sum(weights))

\* the hash-rate update of a tick, for what the drain has counted and for the
\* time that has passed: if num_time > 0 and time_since_last > 0.0: ...
UpdateHashRate ==
    /\ \E n \in 0 .. NumWorkers, time_since_last \in TickDurations :
         /\ num_time' = n
         /\ rounds_total' = RoundsTotalAfter(n, time_since_last)
         /\ IF n > 0 /\ time_since_last > 0
            THEN /\ hash_rates' = AppendPop(hash_rates, hash_rate_(n, time_since_last))
                 /\ hash_rate' = SmoothedHashRate(hash_rates')
            ELSE UNCHANGED ewma
    /\ UNCHANGED << inputs, chain_height, shared_block, check_block, events, queues,
                    c_pc, c_i, old_block_number, c_block, solution, c_raised, curr_stats,
                    w_pc, w_locals, nonce_start, put_log, signals, caller, calls >>

\* the statistics on their own: any sequence of samples
StatsNext == UpdateHashRate
SpecStats == Init /\ [][StatsNext]_vars

(* ----------------------- the callers of create_pow ---------------------- *)
\* everything one call of create_pow owns
round == << shared_block, check_block, events, queues, coord, ewma, telemetry,
           w_pc, w_locals, nonce_start, put_log >>

\* run_faucet_extrinsic calls create_pow with netuid -1, register_extrinsic with
\* the netuid of the subnet
faucet == netuid = -1

\* the heights the chain serves while a caller runs: enough for a Solution of any
\* height of a round to become stale
MaxChain == MaxHeight + 4

\* variant: a Solution is stale from the third block on
is_stale_inclusive(self, current_block) == self.block_number <= current_block - 3

\* POWSolution.is_stale: current_block = get_block_number(None);
\* return self.block_number < current_block - 3
is_stale(self, current_block) == self.block_number < current_block - 3

\* what create_pow gives its caller when the search has ended with a Solution: a
\* POWSolution for a block the chain has served; the caller reads its
\* block_number and hands the other fields to the chain as they are
PowResults == {POWSolution(0, b, 1, << >>) : b \in 0 .. chain_height}

\* no call of is_stale yet for the pow_result held
NoStaleCall == [self |-> NoSolution, result |-> FALSE]

\* what submit_extrinsic answers: response.is_success, or an error message
Responses == {"success", "failed", "HotKeyAlreadyRegisteredInSubNet"}

\* the tally counts up to one more than the limits of the callers
TallyCap == max_allowed_attempts + max_successes
Counted(n) == Min(n + 1, TallyCap)
\* one more call of create_pow
TallyCreatePow == [tally EXCEPT !.create_pow = Counted(@)]
\* one more answer of the chain to a submission
TallyResponse(response) ==
    IF response = "success"
    THEN [tally EXCEPT !.succeeded = Counted(@), !.failed_in_a_row = 0]
    ELSE [tally EXCEPT !.failed = Counted(@), !.failed_in_a_row = Counted(@)]

\* the chain produces a block while the caller runs
ChainGrows ==
    /\ chain_height < MaxChain
    /\ chain_height' = chain_height + 1
    /\ UNCHANGED << inputs, round, caller, calls >>

\* pow_result = await create_pow(...), the search ended with a Solution
CallerCreatePow ==
    /\ r_pc = "create_pow"
    /\ \E result \in PowResults : pow_result' = result
    /\ last_is_stale' = NoStaleCall
    /\ r_pc' = "is_stale"
    /\ tally' = TallyCreatePow
    /\ UNCHANGED << attempts, successes, submitted, err_console, r_return >>
    /\ UNCHANGED << inputs, chain_height, round, calls >>

\* register_extrinsic, create_pow has returned None: if not pow_result: ...;
\* then the attempts count at the end of the loop body. With netuid -1 the search
\* ends only with a Solution
CallerPowFailed ==
    /\ r_pc = "create_pow"
    /\ ~faucet
    /\ pow_result' = NoSolution
    /\ last_is_stale' = NoStaleCall
    /\ tally' = TallyCreatePow
    /\ \E is_registered \in is_hotkey_registered :
         IF is_registered
         THEN /\ err_console' = "Already registered"
              /\ r_return' = "True"
              /\ r_pc' = "returned"
              /\ UNCHANGED attempts
         ELSE IF attempts < max_allowed_attempts
              THEN /\ attempts' = attempts + 1
                   /\ err_console' = "Failed registration, retrying pow"
                   /\ UNCHANGED << r_pc, r_return >>
              ELSE /\ err_console' = "No more attempts."
                   /\ r_return' = "False"
                   /\ r_pc' = "returned"
                   /\ UNCHANGED attempts
    /\ UNCHANGED << successes, submitted >>
    /\ UNCHANGED << inputs, chain_height, round, calls >>

\* variant: the Solution is submitted whatever is_stale has answered
CallerTestStale_submits_anyway ==
    /\ r_pc = "is_stale"
    /\ last_is_stale' = [self |-> pow_result, result |-> is_stale(pow_result, chain_height)]
    /\ r_pc' = "submit"
    /\ UNCHANGED << pow_result, attempts, successes, submitted, err_console, r_return, tally >>
    /\ UNCHANGED << inputs, chain_height, round, calls >>

\* register_extrinsic: while not await pow_result.is_stale(subtensor): ... else:
\* print "POW is stale.", continue; run_faucet_extrinsic: while pow_result is None
\* or await pow_result.is_stale(subtensor): create_pow
CallerTestStale ==
    /\ r_pc = "is_stale"
    /\ LET stale == is_stale(pow_result, chain_height)
       IN  /\ last_is_stale' = [self |-> pow_result, result |-> stale]
           /\ IF stale
              THEN /\ r_pc' = "create_pow"
                   /\ err_console' = IF faucet THEN err_console ELSE "POW is stale."
              ELSE /\ r_pc' = "submit"
                   /\ UNCHANGED err_console
    /\ UNCHANGED << pow_result, attempts, successes, submitted, r_return, tally >>
    /\ UNCHANGED << inputs, chain_height, round, calls >>

\* register_extrinsic: compose_call("register"), submit_extrinsic and what follows
\* the response; a submission that waits for nothing counts as a success
RegisterSubmit ==
    /\ r_pc = "submit"
    /\ ~faucet
    /\ submitted' = submitted \cup {pow_result}
    /\ \E response \in Responses, is_registered \in is_hotkey_registered :
         /\ tally' = TallyResponse(response)
         /\ CASE response = "HotKeyAlreadyRegisteredInSubNet" ->
                   /\ r_return' = "True"
                   /\ r_pc' = "returned"
                   /\ UNCHANGED err_console
              [] response = "failed" ->
                   /\ err_console' = "Failed"
                   /\ r_pc' = "is_stale"
                   /\ UNCHANGED r_return
              [] response = "success" ->
                   IF is_registered
                   THEN /\ r_return' = "True"
                        /\ r_pc' = "returned"
                        /\ UNCHANGED err_console
                   ELSE /\ err_console' = "Unknown error. Neuron not found."
                        /\ r_pc' = "is_stale"
                        /\ UNCHANGED r_return
    /\ UNCHANGED << pow_result, attempts, successes, last_is_stale >>
    /\ UNCHANGED << inputs, chain_height, round, calls >>

\* variant: the count of successes is compared before this success is counted
MaxSuccessesReached_early == successes + 1 = max_successes

\* if successes == max_successes: raise MaxSuccessException
MaxSuccessesReached == successes = max_successes

\* variant: the limit is reached only after one more failure
MaxAttemptsReached_late == attempts > max_allowed_attempts

\* if attempts == max_allowed_attempts: raise MaxAttemptsException
MaxAttemptsReached == attempts = max_allowed_attempts

\* run_faucet_extrinsic: compose_call("faucet"), submit_extrinsic, then attempts
\* and successes; the next turn of while True starts with pow_result = None
FaucetSubmit ==
    /\ r_pc = "submit"
    /\ faucet
    /\ submitted' = submitted \cup {pow_result}
    /\ \E response \in {"success", "failed"} :
         /\ tally' = TallyResponse(response)
         /\ IF response = "failed"
            THEN /\ err_console' = "Failed"
                 /\ IF MaxAttemptsReached
                    THEN /\ r_return' = "False"
                         /\ r_pc' = "returned"
                         /\ UNCHANGED << attempts, pow_result >>
                    ELSE /\ attempts' = attempts + 1
                         /\ pow_result' = NoSolution
                         /\ r_pc' = "create_pow"
                         /\ UNCHANGED r_return
                 /\ UNCHANGED successes
            ELSE /\ IF MaxSuccessesReached
                    THEN /\ r_return' = "True"
                         /\ r_pc' = "returned"
                         /\ UNCHANGED << attempts, successes, pow_result >>
                    ELSE /\ attempts' = 1
                         /\ successes' = successes + 1
                         /\ pow_result' = NoSolution
                         /\ r_pc' = "create_pow"
                         /\ UNCHANGED r_return
                 /\ UNCHANGED err_console
    /\ UNCHANGED last_is_stale
    /\ UNCHANGED << inputs, chain_height, round, calls >>

CallerNext ==
    \/ ChainGrows
    \/ CallerCreatePow
    \/ CallerPowFailed
    \/ CallerTestStale
    \/ RegisterSubmit
    \/ FaucetSubmit

\* register_extrinsic on a subnet, or run_faucet_extrinsic
InitCaller == InitWith({1, -1}, {FALSE})
SpecCaller == InitCaller /\ [][CallerNext]_vars

(* --------------------------- calls of functions ------------------------- *)
\* the bytes, seals (two bytes, so that the byte order shows), difficulties (the
\* whole range of the two packed halves) and limits of a call
CallBytes == {0, 1, 2, 127, 255}
CallSeals == [1 .. 2 -> CallBytes]
CallDifficulties == 0 .. (Pow2(2 * HalfBits) - 1)
CallLimits == {limit, Pow2(16) - 1}

\* no call has been made yet
NoCall == call_args = [fn |-> None]

\* _seal_meets_difficulty(seal, difficulty, limit)
CallSealMeetsDifficulty ==
    /\ NoCall
    /\ \E seal \in CallSeals, difficulty \in CallDifficulties, lim \in CallLimits :
         /\ call_args' = [fn |-> "_seal_meets_difficulty", seal |-> seal,
                          difficulty |-> difficulty, limit |-> lim]
         /\ call_result' = _seal_meets_difficulty(seal, difficulty, lim)
    /\ UNCHANGED << inputs, chain_height, round, caller >>

\* _registration_diff_pack(diff, packed_diff), then
\* _registration_diff_unpack(packed_diff)
CallDiffPackUnpack ==
    /\ NoCall
    /\ \E diff \in CallDifficulties :
         /\ call_args' = [fn |-> "_registration_diff_pack", diff |-> diff]
         /\ call_result' = [packed_diff |-> _registration_diff_pack(diff),
                            unpacked |-> _registration_diff_unpack(_registration_diff_pack(diff))]
    /\ UNCHANGED << inputs, chain_height, round, caller >>

\* the block numbers of a Solution and the chain heights of a call of is_stale
CallBlockNumbers == 0 .. (MaxHeight + 2)
CallCurrentBlocks == 0 .. (MaxHeight + 7)

\* pow_result.is_stale(subtensor), the chain being at current_block
CallIsStale ==
    /\ NoCall
    /\ \E block_number \in CallBlockNumbers, current_block \in CallCurrentBlocks :
         /\ call_args' = [fn |-> "is_stale", block_number |-> block_number,
                          current_block |-> current_block]
         /\ call_result' = is_stale(POWSolution(0, block_number, 1, << >>), current_block)
    /\ UNCHANGED << inputs, chain_height, round, caller >>

\* every digest-sized byte string
CallFingerprints == [1 .. HashLen -> 0 .. 255]

\* the values of nonce_end for a call that starts at first: the batch of a CPU
\* Worker (first + update_interval), shorter ranges, and empty ranges
CallNonceEnds(first) == (first - 1) .. (first + update_interval)

\* _solve_for_nonce_block(nonce_start, nonce_end, ...); the batch of a CPU Worker
\* right after a draw of random.randint(0, nonce_limit) is the call with
\* nonce_end = nonce_start + update_interval
CallSolveForNonceBlock ==
    /\ NoCall
    /\ \E first \in 0 .. nonce_limit, bytes \in CallFingerprints, difficulty \in CallDifficulties, block_number \in Heights :
         \E last \in CallNonceEnds(first) :
             /\ call_args' = [fn |-> "_solve_for_nonce_block", nonce_start |-> first,
                              nonce_end |-> last,
                              block_and_hotkey_hash_bytes |-> bytes,
                              difficulty |-> difficulty, limit |-> limit,
                              block_number |-> block_number]
             /\ call_result' = _solve_for_nonce_block(first, last, bytes,
                                                      difficulty, limit, block_number)
    /\ UNCHANGED << inputs, chain_height, round, caller >>

\* get_cpu_count(): the cores this process may run on
CpuCounts == 1 .. 4
\* num_processes as the caller passes it: None, or a number of processes
ConfiguredProcesses == {None, "1", "2", "3"}
ProcessCount(configured) == CASE configured = "1" -> 1 [] configured = "2" -> 2 [] configured = "3" -> 3

\* if not num_processes: num_processes = min(1, get_cpu_count())
num_processes(configured, cpu_count) ==
    IF configured = None THEN Min(1, cpu_count) ELSE ProcessCount(configured)

\* the number of Workers _solve_for_difficulty_fast sets up
CallNumProcesses ==
    /\ NoCall
    /\ \E configured \in ConfiguredProcesses, cpu_count \in CpuCounts :
         /\ call_args' = [fn |-> "num_processes", num_processes |-> configured,
                          cpu_count |-> cpu_count]
         /\ call_result' = num_processes(configured, cpu_count)
    /\ UNCHANGED << inputs, chain_height, round, caller >>

CallsNext ==
    \/ CallSealMeetsDifficulty
    \/ CallDiffPackUnpack
    \/ CallIsStale
    \/ CallSolveForNonceBlock
    \/ CallNumProcesses

\* one call, of any of the functions and with any of the arguments
SpecCalls == Init /\ [][CallsNext]_vars

(* --------------------------- published states -------------------------- *)
\* what _update_curr_block writes for the block at a height
Fingerprint(height) ==
    _hash_block_with_hotkey(hex_to_bytes(ChainBlockHash(height)), hotkey_bytes)
BlockDifficulty(height) ==
    IF netuid = -1 THEN FaucetDifficulty ELSE ChainDifficulty(height)

\* the locals of Worker w are the triple published for one height
HoldsPublished(w, height) ==
    /\ w_block_number[w] = height
    /\ w_block_bytes[w] = Fingerprint(height)
    /\ w_block_difficulty[w] = BlockDifficulty(height)

\* the locals of Worker w are still the values they had before the loop
HoldsInitial(w) ==
    /\ w_block_number[w] = InitialBlockNumber
    /\ w_block_bytes[w] = InitialBlockBytes
    /\ w_block_difficulty[w] = InitialBlockDifficulty

\* the locals of Worker w are what a read of the shared memory gives now
HoldsShared(w) ==
    /\ w_block_number[w] = curr_block_num
    /\ w_block_bytes[w] = curr_block
    /\ w_block_difficulty[w] = _registration_diff_unpack(curr_diff)

\* the shared memory holds the triple published for one height
SharedIsPublished ==
    \E height \in Heights :
        /\ curr_block_num = height
        /\ curr_block = Fingerprint(height)
        /\ _registration_diff_unpack(curr_diff) = BlockDifficulty(height)

\* the Coordinator has written a new state and has not set Worker w's flag yet
Publishing(w) ==
    \/ c_pc \in {"pub_block", "pub_diff_high", "pub_diff_low"}
    \/ c_pc = "set_events" /\ c_i <= w

\* seal_number * difficulty < limit for a Solution
Winning(sol) == _seal_meets_difficulty(sol.seal, sol.difficulty, limit)

(* ------------------------------- claims -------------------------------- *)
\* C1: whatever the interleaving of a publish with a load, the triple
\* (block_number, fingerprint, difficulty) a Worker holds once its load is over
\* is the triple of one single publish, both difficulty halves included; before
\* its first load it holds the values it started with.
C1_LoadIsOnePublish ==
    \A w \in Workers :
        /\ w_pc[w] \in {"clear", "solve", "put_finished", "crashed"} =>
               \E height \in Heights : HoldsPublished(w, height)
        /\ w_pc[w] \in {"init", "while", "stopped"} =>
               HoldsInitial(w) \/ \E height \in Heights : HoldsPublished(w, height)

\* a Worker has finished a load while the Coordinator was already waiting to
\* publish the next block
C1_Witness ==
    \E w \in Workers :
        /\ w_pc[w] = "clear"
        /\ HoldsPublished(w, curr_block_num)
        /\ c_pc = "pub_num"
        /\ c_block.block_number # curr_block_num

\* C2: once the Coordinator has published a new state and set the flag of a
\* Worker, the next batch that Worker starts uses the published state: a running
\* Worker at its loop test whose flag is clear, with no publish under way, holds
\* the triple of the shared memory.
C2_NextBatchUsesPublished ==
    \A w \in Workers :
        (w_pc[w] = "while" /\ ~stop_event /\ ~new_block_event[w] /\ ~Publishing(w))
            => HoldsShared(w)

\* C3: a load that ends gives the Worker the state of the shared memory at
\* that moment, which is the last completed publish, and within a round the
\* published block number never goes back; so no load returns a state older
\* than a completed publish.
C3_LoadsFollowPublishes ==
    [][ /\ \A w \in Workers :
              (w_pc[w] = "load_diff" /\ w_pc'[w] = "clear") =>
                  /\ SharedIsPublished
                  /\ w_block_number'[w] = curr_block_num
                  /\ w_block_bytes'[w] = curr_block
                  /\ w_block_difficulty'[w] = _registration_diff_unpack(curr_diff)
        /\ c_pc # "returned" => curr_block_num' >= curr_block_num ]_vars

\* a Worker has loaded the second block of the round after a Solution for the
\* first one was emitted
C3_Witness ==
    \E w \in Workers :
        /\ w_pc[w] = "clear"
        /\ put_log # << >>
        /\ w_block_number[w] > put_log[1].block_number

\* C4: the Coordinator returns at most one Solution per round, the first one
\* put on the solution channel of that round; the channel keeps every later
\* Solution of the round and holds nothing of an earlier round.
C4_FirstSolutionOnly ==
    /\ solution # NoSolution =>
           /\ put_log # << >>
           /\ solution = Head(put_log)
           /\ solution_queue = Tail(put_log)
    /\ solution = NoSolution => solution_queue = put_log

\* a round has returned a Solution while a second, different one was emitted
C4_Witness ==
    /\ c_pc = "returned"
    /\ solution # NoSolution
    /\ Len(put_log) >= 2
    /\ put_log[2] # put_log[1]

\* C5: every Solution a CPU or GPU Worker puts on the solution channel, and
\* every Solution returned, is winning: its seal as a big-endian integer times
\* its difficulty is below the limit; a kernel answer that fails the host
\* re-check emits nothing.
C5_EmittedSolutionsWin ==
    /\ \A i \in 1 .. Len(put_log) : Winning(put_log[i])
    /\ solution # NoSolution => Winning(solution)

\* a round with GPU Workers has returned a Solution
C5_Witness ==
    /\ cuda
    /\ c_pc = "returned"
    /\ solution # NoSolution

\* C6: once the stop flag is set every Worker eventually is no longer running,
\* and a loop test that sees the flag set starts no batch: the Worker leaves
\* its loop.
C6_StopEndsWorkers ==
    /\ stop_event ~> (\A w \in Workers : ~Alive(w))
    /\ [][\A w \in Workers :
             (w_pc[w] = "while" /\ stop_event /\ w_pc'[w] # "while") =>
                 w_pc'[w] \in {"stopped", "terminated"}]_vars

\* a Worker has left its loop on the stop flag before the Coordinator closed it
C6_Witness ==
    /\ stop_event
    /\ c_pc = "join"
    /\ c_i = 0
    /\ \E w \in Workers : w_pc[w] = "stopped"

\* C7 (as stated): a Worker that is in a batch always finishes that batch
\* before it stops; nothing ends it in the middle of a batch.
C7_BatchAlwaysFinishes ==
    [][\A w \in Workers :
          w_pc[w] \in BatchPcs => w_pc'[w] \notin {"stopped", "terminated"}]_vars

\* C7 (amended): the stop flag takes effect only at the loop test, so it never
\* ends a batch in progress; a batch in progress ends by completing, by an
\* error it raises, or by the Coordinator terminating the process when it
\* closes the Workers after the join timeout.
C7_StopOnlyAtLoopTest ==
    [][\A w \in Workers :
          /\ (w_pc'[w] = "stopped" /\ w_pc[w] # "stopped") =>
                 (w_pc[w] = "while" /\ stop_event)
          /\ (w_pc[w] \in BatchPcs /\ w_pc'[w] \notin BatchPcs \cup {"put_finished", "crashed"}) =>
                 (w_pc'[w] = "terminated" /\ c_pc = "close" /\ c_i = w)]_vars

\* the stop flag is set while a Worker is in the middle of a batch
C7_Witness ==
    /\ stop_event
    /\ \E w \in Workers : w_pc[w] = "solve"

\* C8: the Coordinator sets the stop flag before it joins the Workers, each
\* Worker it has closed is no longer running, and when _block_solver has
\* returned no Worker of the round is running.
C8_ReturnLeavesNoWorker ==
    /\ c_pc \in {"join", "close", "returned"} => stop_event
    /\ c_pc \in {"join", "close"} => \A w \in Workers : w < c_i => ~Alive(w)
    /\ c_pc = "returned" => \A w \in Workers : ~Alive(w)

\* _block_solver has returned after terminating a Worker that had not exited
C8_Witness ==
    /\ c_pc = "returned"
    /\ \E w \in Workers : w_pc[w] = "terminated"

\* C9: whenever _block_solver is left after the Workers were started, by
\* return or by exception, the stop flag is set and no Worker is running.
C9_ReleaseOnEveryExit ==
    (c_pc \in {"returned", "raised"} /\ Started) =>
        (stop_event /\ \A w \in Workers : ~Alive(w))

\* C10: an error of the chain query made in a tick does not end the round: the
\* Coordinator never leaves _block_solver by an exception once the Workers run.
C10_QueryErrorNotFatal ==
    ~(Started /\ c_pc = "raised" /\ c_raised \in {"Exception", "ValueError"})

\* C11: when the Difficulty query gives no value (ValueError) the Coordinator
\* leaves _block_solver with that error and fetches nothing again; the step that
\* raises and every later step leave the shared memory as the last completed
\* publish left it.
C11_NoDifficultyFailsRound ==
    [][c_raised' # None =>
          /\ c_pc' = "raised"
          /\ UNCHANGED shared_block
          /\ Started => SharedIsPublished
          /\ c_pc # "raised" => (c_pc = "get_block" /\ check_block # "coordinator")]_vars

\* a tick has failed on a missing difficulty for a block newer than the published one
C11_Witness ==
    /\ Started
    /\ c_pc = "raised"
    /\ c_raised = "ValueError"
    /\ curr_block_num < chain_height
    /\ SharedIsPublished

\* C12: when a GPU Worker has died of an accelerator error in a batch, the
\* Coordinator eventually leaves its tick loop: the round ends (with the error
\* surfaced) instead of waiting for ever for a Solution of the dead Worker.
C12_DeadGpuWorkerEndsRound ==
    (cuda /\ \E w \in Workers : w_pc[w] = "crashed") ~> (c_pc \in {"raised", "returned"})

\* C13: when the loop test finds the hotkey registered the Coordinator leaves
\* the loop with no Solution, sets the stop flag, closes every Worker and
\* returns no Solution; no Worker of the round is running when it returns.
C13_RegisteredAbandonsRound ==
    /\ [][(c_pc = "while" /\ c_pc' \notin {"while", "get_solution"}) =>
             (c_pc' = "set_stop" /\ solution' = NoSolution /\ netuid # -1)]_vars
    /\ [][(c_pc \in {"set_stop", "join", "close"}) => (solution' = solution)]_vars
    /\ [][(c_pc # "returned" /\ c_pc' = "returned") =>
             (c_pc = "close" /\ stop_event /\ \A w \in Workers :
                  w_pc'[w] \in {"stopped", "terminated", "crashed"})]_vars
    /\ (c_pc = "set_stop" /\ solution = NoSolution)
           ~> (c_pc = "returned" /\ solution = NoSolution)

\* a round was abandoned although a Worker had emitted a Solution
C13_Witness ==
    /\ c_pc = "returned"
    /\ solution = NoSolution
    /\ stop_event
    /\ put_log # << >>

\* C14: a CPU Worker that has ended a batch is never blocked on its completion
\* signal; it tries the put once, which drops the signal when the channel is
\* full and appends one signal otherwise, raises nothing, and leaves the Worker
\* at its loop test with the same block snapshot; every batch ends with that
\* one attempt.
C14_CpuSignalIsBestEffort ==
    /\ [](\A w \in Workers :
             (~cuda /\ w_pc[w] = "put_finished") => ENABLED WorkerPutFinished(w))
    /\ [][\A w \in Workers :
             /\ (~cuda /\ w_pc[w] = "put_finished" /\ w_pc'[w] # "put_finished") =>
                    \/ /\ w_pc'[w] = "while"
                       /\ finished_queues'[w] =
                            IF Full(finished_queues[w]) THEN finished_queues[w]
                            ELSE Append(finished_queues[w], w)
                       /\ w_block_number'[w] = w_block_number[w]
                       /\ w_block_bytes'[w] = w_block_bytes[w]
                       /\ w_block_difficulty'[w] = w_block_difficulty[w]
                       /\ c_raised' = c_raised
                    \/ w_pc'[w] = "terminated" /\ c_pc = "close" /\ c_i = w
             /\ (~cuda /\ w_pc[w] # "put_finished") =>
                    Len(finished_queues'[w]) <= Len(finished_queues[w])
             /\ (~cuda /\ w_pc[w] = "solve" /\ w_pc'[w] # "solve") =>
                    w_pc'[w] \in {"put_finished", "crashed", "terminated"}]_vars

\* a CPU Worker is back at its loop test after a batch, its signal is in the
\* channel, and it still holds the snapshot of a block older than the published one
C14_Witness ==
    \E w \in Workers :
        /\ ~cuda
        /\ w_pc[w] = "while"
        /\ nonce_start[w] = PendingNextDraw
        /\ finished_queues[w] = << w >>
        /\ w_block_number[w] \in Heights
        /\ w_block_number[w] < curr_block_num

C16_DrainCountsEverySignal ==
    [][(c_pc = "drain" /\ (c_pc' # "drain" \/ c_i' # c_i)) =>
          /\ finished_queues'[c_i] = << >>
          /\ num_time' = (IF c_i = 0 THEN 0 ELSE num_time) + Len(finished_queues[c_i])]_vars

\* the value of a float as an integer number of units of 2^-(FloatBits + 4)
FloatUnits(x) == x.m * Pow2(x.e + FloatBits + 4)

\* the integer weight AlphaNum^i * AlphaDen^(n_samples - 1 - i), which is
\* alpha^i times AlphaDen^(n_samples - 1)
AlphaPower(i) == (AlphaNum ^ i) * (AlphaDen ^ (n_samples - 1 - i))

\* the sum over i < n of AlphaPower(i), and of AlphaPower(i) times the sample
\* that lies i positions back from the most recent one
RECURSIVE AlphaPowerSum(_)
AlphaPowerSum(n) == IF n = 0 THEN 0 ELSE AlphaPowerSum(n - 1) + AlphaPower(n - 1)
RECURSIVE NewestFirstSum(_, _)
NewestFirstSum(rates, n) ==
    IF n = 0 THEN 0
    ELSE NewestFirstSum(rates, n - 1)
           + AlphaPower(n - 1) * FloatUnits(rates[n_samples - (n - 1)])

Abs(n) == IF n < 0 THEN -n ELSE n

\* C17: the smoothed rate is the mean of the window in which the sample i
\* positions back from the most recent one has weight alpha^i (up to the
\* rounding of 2 * n_samples float operations).
C17_NewestSampleWeighsMost ==
    LET exact_num == NewestFirstSum(hash_rates, n_samples)
        exact_den == AlphaPowerSum(n_samples)
    IN  Abs(FloatUnits(hash_rate) * exact_den - exact_num) * Pow2(FloatBits)
            <= 2 * n_samples * exact_num

\* C18 (as stated): when the window holds n_samples samples equal to r, the
\* smoothed rate equals r.
C18_ConstantStreamGivesRate ==
    (hash_rates[1] # float(0) /\ \A i \in 1 .. n_samples : hash_rates[i] = hash_rates[1])
        => hash_rate = hash_rates[1]

\* C18 (amended): when the window holds n_samples samples equal to r, the
\* smoothed rate equals r up to the rounding of the 2 * n_samples float
\* operations that compute it: it differs from r by at most
\* 2 * n_samples * 2^-FloatBits * r.
C18_ConstantStreamGivesRateRounded ==
    (hash_rates[1] # float(0) /\ \A i \in 1 .. n_samples : hash_rates[i] = hash_rates[1])
        => Abs(FloatUnits(hash_rate) - FloatUnits(hash_rates[1])) * Pow2(FloatBits)
               <= 2 * n_samples * FloatUnits(hash_rates[1])

\* the window holds n_samples equal samples and the smoothed rate is not that sample
C18_Witness ==
    /\ hash_rates[1] # float(0)
    /\ \A i \in 1 .. n_samples : hash_rates[i] = hash_rates[1]
    /\ hash_rate # hash_rates[1]
    /\ hash_rate # float(0)

\* the seal a Worker computes for a nonce on the snapshot it holds
SnapshotSeal(w, nonce) ==
    IF cuda
    THEN _create_seal_hash(Take(hexlify(w_block_bytes[w]), 2 * HashLen), nonce)
    ELSE _create_seal_hash(w_block_bytes[w], nonce)

\* C19: a batch that finds a Solution puts it on the solution channel as it
\* is, with the block number and difficulty of the snapshot the Worker holds
\* and the seal of that snapshot, whatever the shared memory holds by then;
\* the Coordinator takes the first Solution of the channel, leaves its loop
\* and returns that Solution unchanged.
C19_SolutionCarriesItsSnapshot ==
    [][/\ \A w \in Workers :
             (w_pc[w] = "solve" /\ w_pc'[w] = "put_finished") =>
                 IF put_log' # put_log
                 THEN LET found == put_log'[Len(put_log')]
                      IN  /\ put_log' = Append(put_log, found)
                          /\ solution_queue' = Append(solution_queue, found)
                          /\ found.block_number = w_block_number[w]
                          /\ found.difficulty = w_block_difficulty[w]
                          /\ found.seal = SnapshotSeal(w, found.nonce)
                 ELSE solution_queue' = solution_queue
       /\ (c_pc = "get_solution" /\ c_pc' # "get_solution" /\ solution_queue # << >>) =>
              (solution' = Head(solution_queue) /\ c_pc' = "set_stop")
       /\ (c_pc \in {"set_stop", "join", "close"}) => (solution' = solution)]_vars

\* _block_solver has returned a Solution for a block older than the published one
C19_Witness ==
    /\ c_pc = "returned"
    /\ solution # NoSolution
    /\ SharedIsPublished
    /\ solution.block_number < curr_block_num

\* the messages with which a caller reports a failure
FailureReports ==
    {"Failed", "Unknown error. Neuron not found.",
     "Failed registration, retrying pow", "No more attempts."}

\* C20: in register_extrinsic and run_faucet_extrinsic a Solution is submitted
\* only when the call of is_stale just before the submission answered false for
\* that Solution; when is_stale answers true the Solution is not submitted, no
\* failure is reported (no failure message, no attempt counted, no return) and
\* the caller goes back to create_pow
C20_StaleSolutionIsSearchedAgain ==
    [][/\ (r_pc = "submit" /\ r_pc' # "submit") =>
            /\ pow_result # NoSolution
            /\ last_is_stale = [self |-> pow_result, result |-> FALSE]
            /\ submitted' = submitted \cup {pow_result}
       /\ (r_pc # "submit" /\ r_pc' = "submit") =>
            /\ r_pc = "is_stale"
            /\ ~is_stale(pow_result, chain_height)
            /\ pow_result' = pow_result
            /\ last_is_stale' = [self |-> pow_result, result |-> FALSE]
       /\ (r_pc # "submit") => submitted' = submitted
       /\ (r_pc = "is_stale" /\ r_pc' # "is_stale" /\ is_stale(pow_result, chain_height)) =>
            /\ r_pc' = "create_pow"
            /\ submitted' = submitted
            /\ attempts' = attempts
            /\ successes' = successes
            /\ r_return' = None
            /\ err_console' \notin FailureReports \/ err_console' = err_console
       /\ (r_pc = "create_pow" /\ last_is_stale.result /\ r_pc' # "create_pow") =>
            \/ pow_result' \in PowResults /\ r_pc' = "is_stale"
            \/ pow_result' = NoSolution /\ r_pc' = "returned"
      ]_vars

\* witness of C20: a Solution has been submitted, a later Solution has just been
\* found stale without having been submitted, and the caller is back at create_pow
C20_Witness ==
    /\ r_pc = "create_pow"
    /\ pow_result # NoSolution
    /\ last_is_stale = [self |-> pow_result, result |-> TRUE]
    /\ pow_result \notin submitted
    /\ submitted # {}
    /\ r_return = None

\* C21: only the Coordinator writes the shared block state: no step of a CPU or
\* GPU Worker changes the shared fingerprint bytes, the shared block number or
\* the packed difficulty; of the other shared objects a Worker step leaves the
\* stop flag and the flags and completion channels of the other Workers as they
\* are, can only clear its own new-block flag, and can only append to the
\* solution channel and to its own completion channel
C21_OnlyCoordinatorWritesSharedBlock ==
    [][\A w \in Workers :
         WorkerStep(w) =>
           /\ curr_block' = curr_block
           /\ curr_block_num' = curr_block_num
           /\ curr_diff' = curr_diff
           /\ stop_event' = stop_event
           /\ \A v \in Workers :
                /\ \/ new_block_event'[v] = new_block_event[v]
                   \/ v = w /\ ~new_block_event'[v]
                /\ \/ finished_queues'[v] = finished_queues[v]
                   \/ v = w /\ finished_queues'[v] = Append(finished_queues[v], w)
           /\ \/ solution_queue' = solution_queue
              \/ /\ Len(solution_queue') = Len(solution_queue) + 1
                 /\ SubSeq(solution_queue', 1, Len(solution_queue)) = solution_queue
      ]_vars

\* witness of C21: a Worker has loaded the published block, cleared its flag and
\* put items on both channels, and the shared memory still holds what the
\* Coordinator published
C21_Witness ==
    /\ SharedIsPublished
    /\ curr_block_num > 0
    /\ solution_queue # << >>
    /\ \E w \in Workers :
         /\ finished_queues[w] # << >>
         /\ ~new_block_event[w]
         /\ w_block_number[w] = curr_block_num

\* the value of a byte string read as a big-endian unsigned integer: the first
\* byte is the most significant
RECURSIVE big_endian_uint(_)
big_endian_uint(bytes) ==
    IF bytes = << >> THEN 0
    ELSE Head(bytes) * (256 ^ (Len(bytes) - 1)) + big_endian_uint(Tail(bytes))

\* C22: for every seal and every difficulty of the unsigned range,
\* _seal_meets_difficulty(seal, difficulty, limit) is true exactly when the
\* big-endian unsigned value of the seal times the difficulty, as an exact
\* integer product, is strictly less than limit
C22_SealMeetsDifficultyIsExactProduct ==
    call_args.fn = "_seal_meets_difficulty" =>
        (call_result <=>
            big_endian_uint(call_args.seal) * call_args.difficulty < call_args.limit)

\* witness of C22: a product that no longer fits the width of the limit is
\* found not to meet the difficulty
C22_Witness ==
    /\ call_args.fn = "_seal_meets_difficulty"
    /\ big_endian_uint(call_args.seal) * call_args.difficulty >= Pow2(16)
    /\ (big_endian_uint(call_args.seal) * call_args.difficulty) % Pow2(16) < call_args.limit
    /\ call_args.seal[1] # call_args.seal[2]
    /\ ~call_result

\* C23: for every difficulty d of the unsigned range, packing d into the two
\* shared halves and unpacking them gives back d
C23_DiffPackRoundTrip ==
    call_args.fn = "_registration_diff_pack" => call_result.unpacked = call_args.diff

\* witness of C23: a difficulty with bits in both halves came back
C23_Witness ==
    /\ call_args.fn = "_registration_diff_pack"
    /\ call_result.packed_diff[1] > 0
    /\ call_result.packed_diff[2] = Pow2(HalfBits) - 1
    /\ call_result.unpacked = call_args.diff

AllOnes == [i \in 1 .. HashLen |-> 255]

\* C25: with difficulty 1 and the limit of the program (all-ones, 2^256 - 1), the
\* first batch of a CPU Worker gives a Solution for its first candidate nonce,
\* whatever start was drawn, unless the seal of that nonce is the all-ones value
C25_FirstCandidateWinsAtDifficultyOne ==
    (/\ call_args.fn = "_solve_for_nonce_block"
     /\ call_args.nonce_end = call_args.nonce_start + update_interval
     /\ call_args.difficulty = 1) =>
        LET seal == _create_seal_hash(call_args.block_and_hotkey_hash_bytes,
                                      call_args.nonce_start)
        IN  seal # AllOnes =>
              call_result = SolveResult(FALSE, POWSolution(call_args.nonce_start,
                                                           call_args.block_number, 1, seal))

\* witness of C25: a first batch at difficulty 1, started at the largest nonce
\* that can be drawn, has given a Solution for that nonce
C25_Witness ==
    /\ call_args.fn = "_solve_for_nonce_block"
    /\ call_args.nonce_end = call_args.nonce_start + update_interval
    /\ call_args.difficulty = 1
    /\ call_args.nonce_start = nonce_limit
    /\ ~call_result.raised
    /\ call_result.solution.nonce = nonce_limit

\* C26: when the number of CPU processes is not configured, the number of CPU
\* Workers of a round equals the available core count and is at least 1
C26_DefaultIsCoreCount ==
    (call_args.fn = "num_processes" /\ call_args.num_processes = None) =>
        /\ call_result = call_args.cpu_count
        /\ call_result >= 1

\* C27: every batch of a CPU Worker, the first and each later one, starts below
\* 2^64 - update_interval and covers [start, start + update_interval), so every
\* nonce it evaluates fits 8 bytes: no batch of a CPU Worker that holds a
\* snapshot ends with the OverflowError of the nonce encoding
C27_CpuNoncesFitEightBytes ==
    [][\A w \in Workers :
         (~cuda /\ w_pc[w] = "solve" /\ w_block_number[w] # UnassignedInt) =>
             /\ w_pc'[w] # "crashed"
             /\ \A first \in NonceStarts(w) :
                  \A nonce \in first .. (first + update_interval - 1) : ~NonceOverflows(nonce)
      ]_vars

\* C28: after every batch the GPU Worker advances its nonce cursor by
\* update_interval * tpb modulo 2^64: the new cursor is
\* (old cursor + update_interval * tpb) mod 2^64
C28_GpuCursorWrapsAtNonceSpace ==
    [][\A w \in Workers :
         (cuda /\ w_pc[w] = "put_finished" /\ w_pc'[w] = "while") =>
             nonce_start'[w] = (nonce_start[w] + update_interval * tpb) % NonceSpace
      ]_vars

\* C29: the CPU and the GPU Workers give interchangeable results: the seal of a
\* Solution that a Worker of either kind puts on the solution channel is the
\* seal _create_seal_hash derives from the fingerprint the Worker holds and the
\* Solution's nonce, and it passes _seal_meets_difficulty
C29_GpuSealIsCpuSeal ==
    [][\A w \in Workers :
         (/\ w_pc[w] = "solve"
          /\ w_pc'[w] # "solve"
          /\ Len(solution_queue') = Len(solution_queue) + 1) =>
             LET s == solution_queue'[Len(solution_queue')]
             IN  /\ s.seal = _create_seal_hash(w_block_bytes[w], s.nonce)
                 /\ _seal_meets_difficulty(s.seal, w_block_difficulty[w], limit)
      ]_vars

\* C30: on the faucet path (netuid = -1) the difficulty the Coordinator fetches
\* and publishes to the shared block state is 1000000 for every block, and no
\* Difficulty query is made: none can fail the round
C30_FaucetDifficultyIsFixed ==
    netuid = -1 =>
        /\ c_block # NoBlock => c_block.difficulty = 1000000
        /\ (curr_block_num > 0 /\ c_pc \notin {"pub_block", "pub_diff_high", "pub_diff_low"}) =>
               _registration_diff_unpack(curr_diff) = 1000000
        /\ \A w \in Workers :
               (w_pc[w] \in {"clear", "solve", "put_finished"} /\ w_block_number[w] > 0) =>
                   w_block_difficulty[w] = 1000000
        /\ c_raised = None

\* witness of C30: on the faucet path the second block of the round is published
\* and a Worker has loaded it
C30_Witness ==
    /\ netuid = -1
    /\ curr_block_num = 2
    /\ c_pc = "while"
    /\ _registration_diff_unpack(curr_diff) = 1000000
    /\ \E w \in Workers : w_block_number[w] = 2 /\ w_block_difficulty[w] = 1000000

\* C31: register_extrinsic starts at most max_allowed_attempts proof-of-work
\* rounds (calls of create_pow) before it returns, whatever the rounds give
C31_AtMostMaxAttemptsRounds ==
    ~faucet => tally.create_pow <= max_allowed_attempts

\* C32: run_faucet_extrinsic returns success after exactly max_successes
\* successful submissions: it returns at the max_successes-th success, makes no
\* submission after it, and does not return success after fewer
C32_ReturnsAtMaxSuccesses ==
    [][faucet =>
         /\ tally'.succeeded <= max_successes
         /\ (r_return' = "True") <=> (tally'.succeeded = max_successes)
         /\ (r_return # None) => (tally' = tally /\ submitted' = submitted /\ r_return' = r_return)
      ]_vars

\* witness of C32: the faucet has returned success after its third successful
\* submission, with failed submissions in between
C32_Witness ==
    /\ faucet
    /\ r_return = "True"
    /\ tally.succeeded = max_successes
    /\ tally.failed > 0

\* C33: run_faucet_extrinsic returns failure exactly when max_allowed_attempts
\* submissions have failed in a row; every successful submission resets the
\* attempt counter to 1, so that the counter is one more than the number of
\* failures since the last success
C33_ReturnsAtMaxFailuresInARow ==
    [][faucet =>
         /\ tally'.failed_in_a_row <= max_allowed_attempts
         /\ (r_return' = "False") <=> (tally'.failed_in_a_row = max_allowed_attempts)
         /\ (r_return' = None) => (attempts' = tally'.failed_in_a_row + 1)
         /\ (tally'.succeeded > tally.succeeded /\ r_return' = None) => attempts' = 1
      ]_vars

\* witness of C33: as many submissions have failed as the limit allows, a
\* success lies between them, and the faucet is still running
C33_Witness ==
    /\ faucet
    /\ r_return = None
    /\ tally.failed >= max_allowed_attempts
    /\ tally.succeeded > 0
    /\ tally.failed_in_a_row > 0

\* C34: no Worker runs a batch before it has loaded a published state: when
\* the Coordinator starts the Workers the shared memory holds a published
\* triple and every flag is set; a Worker that still holds the values it
\* started with has its flag set, so its next loop iteration is a load; a load
\* reads a published triple; and a Worker in a batch holds a published triple,
\* never its initial values or the zeroes of the new shared memory
C34_NoBatchBeforeLoad ==
    /\ c_pc = "start" => (SharedIsPublished /\ \A w \in Workers : new_block_event[w])
    /\ \A w \in Workers :
         /\ (w_pc[w] = "while" /\ HoldsInitial(w)) => new_block_event[w]
         /\ w_pc[w] \in {"load_block", "load_diff"} => SharedIsPublished
         /\ w_pc[w] \in {"solve", "put_finished"} =>
              /\ ~HoldsInitial(w)
              /\ w_block_bytes[w] # [i \in 1 .. HashLen |-> 0]
              /\ \E height \in Heights : HoldsPublished(w, height)

\* witness of C34: a Worker is about to run its first batch, on the triple of
\* the first block, and has not drawn a nonce yet
C34_Witness ==
    \E w \in Workers :
        /\ w_pc[w] = "solve"
        /\ nonce_start[w] = PendingFirstDraw
        /\ finished_queues[w] = << >>
        /\ HoldsPublished(w, curr_block_num)

\* the Coordinator is in the tick loop of a started round
RoundRuns ==
    /\ Started
    /\ c_pc \in {"while", "get_solution", "get_block_number", "get_block", "pub_num",
                 "pub_block", "pub_diff_high", "pub_diff_low", "set_events", "drain"}

\* C35: a new-block signal is never lost: in a round that goes on with a
\* Worker that stays alive, once the chain height has stopped changing the
\* Worker's batches are from some moment on all searched against the state
\* of the shared memory, the last published one
C35_SignalNeverLost ==
    \A w \in Workers :
        <>[](RoundRuns /\ Alive(w)) => <>[](w_pc[w] = "solve" => HoldsShared(w))

\* a step of the Coordinator in the part of a tick that follows an unchanged
\* height: the height test that finds the old height, and the drain
QuietTickStep ==
    \/ c_pc = "get_block_number" /\ c_pc' # c_pc /\ chain_height' = old_block_number
    \/ c_pc = "drain" /\ << c_pc, c_i >>' # << c_pc, c_i >>

\* C36: in a tick where the observed height equals the last observed height
\* the Coordinator goes on to the drain without fetching or publishing: it
\* leaves the shared memory, every Worker's flag and the block_number,
\* block_hash and difficulty of curr_stats unchanged and does not take the lock
C36_QuietTickChangesNothing ==
    [][ /\ (c_pc = "get_block_number" /\ c_pc' # c_pc /\ chain_height' = old_block_number)
               => c_pc' = "drain"
        /\ QuietTickStep =>
             /\ UNCHANGED << shared_block, check_block, new_block_event, curr_stats,
                             old_block_number, c_block >>
             /\ check_block # "coordinator"
      ]_vars

\* witness of C36: the Coordinator is at the drain of a tick in a started
\* round whose shared memory still holds the first block the chain served (no
\* tick has published), while a Worker holds the lock for a load
C36_Witness ==
    /\ c_pc = "drain"
    /\ Started
    /\ old_block_number = chain_height
    /\ curr_block_num = old_block_number
    /\ \A height \in Heights : curr_block_num <= height
    /\ \E w \in Workers : check_block = Proc(w)

\* C37: during a round rounds_total never decreases, grows in one tick by at
\* most the number of Workers, and is at every moment at most the number of
\* completion signals the Workers have emitted so far
C37_RoundsTotalCountsSignals ==
    [][ /\ c_pc # "returned" =>
             /\ rounds_total' >= rounds_total
             /\ rounds_total' - rounds_total <= NumWorkers
        /\ rounds_total' <= signals'
      ]_vars

\* witness of C37: the statistics have counted a batch, and a later signal of a
\* Worker is not counted yet
C37_Witness ==
    /\ c_pc = "while"
    /\ rounds_total > 0
    /\ rounds_total < signals
    /\ \E w \in Workers : finished_queues[w] # << >>

\* the Coordinator is inside the with block of _update_curr_block
InPublish == c_pc \in {"pub_block", "pub_diff_high", "pub_diff_low"}

\* Worker w is inside the with block of its load
InLoad(w) == w_pc[w] \in {"load_block", "load_diff"}

\* C38: the protocol around check_block is free of deadlock: the Coordinator
\* holds the lock exactly while it is inside one publish and a running Worker
\* exactly while it is inside one load; whoever holds the lock can take its
\* next step (it waits for nothing); a publish that waits for the lock is
\* eventually completed, and a load that waits for the lock is eventually
\* completed unless the Worker is ended first
C38_LockIsDeadlockFree ==
    /\ [](check_block = "coordinator" <=> InPublish)
    /\ [](\A w \in Workers : Alive(w) => (check_block = Proc(w) <=> InLoad(w)))
    /\ [](InPublish => ENABLED CoordStep)
    /\ [](\A w \in Workers : InLoad(w) => ENABLED WorkerStep(w))
    /\ (c_pc = "pub_num") ~> (c_pc = "set_events")
    /\ \A w \in Workers : (w_pc[w] = "load_num") ~> (w_pc[w] = "clear" \/ ~Alive(w))

\* witness of C38: the Coordinator waits at the start of a publish for the
\* lock that a Worker holds in the last step of its load
C38_Witness ==
    /\ c_pc = "pub_num"
    /\ \E w \in Workers : check_block = Proc(w) /\ w_pc[w] = "load_diff"

\* the nonces of the half-open range [nonce_start, nonce_end) of the call
CallRange == call_args.nonce_start .. (call_args.nonce_end - 1)

\* nonce has a seal (it fits 8 bytes) and the seal meets the difficulty of the call
CallWins(nonce) ==
    /\ ~NonceOverflows(nonce)
    /\ _seal_meets_difficulty(_create_seal_hash(call_args.block_and_hotkey_hash_bytes, nonce),
                              call_args.difficulty, call_args.limit)

\* C39: _solve_for_nonce_block returns the Solution of the smallest winning
\* nonce of [nonce_start, nonce_end), with the block_number and the difficulty
\* it was given and the seal of that nonce, and returns no Solution exactly
\* when no nonce of the range is winning; it raises only when it comes to a
\* nonce that does not fit 8 bytes before any winning nonce
C39_SmallestWinningNonce ==
    call_args.fn = "_solve_for_nonce_block" =>
        LET winners == {n \in CallRange : CallWins(n)}
            sol == call_result.solution
        IN  /\ (sol = NoSolution) <=> (winners = {})
            /\ sol # NoSolution =>
                 /\ ~call_result.raised
                 /\ sol.nonce \in winners
                 /\ \A n \in winners : sol.nonce <= n
                 /\ sol.block_number = call_args.block_number
                 /\ sol.difficulty = call_args.difficulty
                 /\ sol.seal = _create_seal_hash(call_args.block_and_hotkey_hash_bytes, sol.nonce)
            /\ call_result.raised <=>
                 (winners = {} /\ \E n \in CallRange : NonceOverflows(n))

\* witness of C39: the range has two winning nonces after a losing one, and
\* the Solution is for the smaller of the two
C39_Witness ==
    /\ call_args.fn = "_solve_for_nonce_block"
    /\ call_result.solution # NoSolution
    /\ call_result.solution.nonce > call_args.nonce_start
    /\ \E n \in CallRange : n > call_result.solution.nonce /\ CallWins(n)

====
